---- MODULE Spec2Model ----
(***************************************************************************)
(* Model of the S3 <-> local reconciliation scripts                        *)
(*   src/src/scripts/aws/s3/sync_to_s3.py   (upload,   direction "up")     *)
(*   src/scripts/aws/s3/sync_from_s3.py     (download, direction "down")   *)
(*                                                                         *)
(* Strings are sequences of one-character strings, so that prefix tests,   *)
(* basename, extension and difflib's similarity ratio are computed, not    *)
(* assumed.  Python dicts are sequences of records in insertion order.     *)
(***************************************************************************)
EXTENDS Integers, Sequences, FiniteSets, TLC

(***************************************************************************)
(* Generic sequence helpers                                                *)
(***************************************************************************)
Range(s) == {s[i] : i \in 1..Len(s)}

Min2(a, b) == IF a <= b THEN a ELSE b

RECURSIVE FlattenSeq(_)
FlattenSeq(ss) == IF ss = <<>> THEN <<>> ELSE Head(ss) \o FlattenSeq(Tail(ss))

\* the subsequence of s whose elements are in the set S, order kept
Restrict(s, S) == SelectSeq(s, LAMBDA x : x \in S)

\* every arrangement of the elements of the set S as a sequence
Perms(S) == {p \in [1..Cardinality(S) -> S] : Range(p) = S}

(***************************************************************************)
(* Python str operations used by the scripts                               *)
(***************************************************************************)
startswith(s, p) == Len(p) <= Len(s) /\ SubSeq(s, 1, Len(p)) = p

endswith(s, p) == Len(p) <= Len(s) /\ SubSeq(s, Len(s) - Len(p) + 1, Len(s)) = p

contains(s, c) == \E i \in 1..Len(s) : s[i] = c

\* s[len(p):]
after(s, p) == SubSeq(s, Len(p) + 1, Len(s))

\* index of the last occurrence of c in s, 0 when there is none
rindex(s, c) == IF contains(s, c) THEN CHOOSE i \in 1..Len(s) :
                     s[i] = c /\ \A j \in (i+1)..Len(s) : s[j] # c
                ELSE 0

\* str.lstrip('/')
RECURSIVE lstrip(_, _)
lstrip(s, c) == IF s # <<>> /\ Head(s) = c THEN lstrip(Tail(s), c) ELSE s

\* os.path.basename
basename(p) == SubSeq(p, rindex(p, "/") + 1, Len(p))

\* os.path.dirname
dirname(p) == IF rindex(p, "/") = 0 THEN <<>> ELSE SubSeq(p, 1, rindex(p, "/") - 1)

\* str.lower() on the alphabet of the model
lowerChar(c) == CASE c = "A" -> "a" [] c = "D" -> "d" [] c = "E" -> "e"
                  [] c = "M" -> "m" [] c = "P" -> "p" [] c = "R" -> "r"
                  [] c = "S" -> "s" [] c = "Y" -> "y" [] OTHER -> c

lower(s) == [i \in 1..Len(s) |-> lowerChar(s[i])]

\* os.path.splitext(p)[1]: from the last dot of the base name, unless that
\* dot only leads the name
splitext1(p) ==
    LET b == basename(p)
        d == rindex(b, ".")
    IN IF d = 0 \/ (\A j \in 1..(d-1) : b[j] = ".") THEN <<>>
       ELSE SubSeq(b, d, Len(b))

(***************************************************************************)
(* difflib.SequenceMatcher(None, a, b).ratio()                             *)
(***************************************************************************)
\* length of the common run of a from i and b from j, inside a[..ahi], b[..bhi]
RECURSIVE RunLen(_, _, _, _, _, _)
RunLen(a, b, i, j, ahi, bhi) ==
    IF i > ahi \/ j > bhi \/ a[i] # b[j] THEN 0
    ELSE 1 + RunLen(a, b, i + 1, j + 1, ahi, bhi)

\* find_longest_match: the longest block, earliest in a, then earliest in b
find_longest_match(a, b, alo, ahi, blo, bhi) ==
    LET pairs == (alo..ahi) \X (blo..bhi)
        L == [p \in pairs |-> RunLen(a, b, p[1], p[2], ahi, bhi)]
        kmax == CHOOSE k \in {L[p] : p \in pairs} : \A p \in pairs : L[p] <= k
        best == CHOOSE p \in pairs :
                  /\ L[p] = kmax
                  /\ \A q \in pairs : L[q] = kmax =>
                        \/ p[1] < q[1]
                        \/ p[1] = q[1] /\ p[2] <= q[2]
    IN [i |-> best[1], j |-> best[2], k |-> kmax]

\* sum of the sizes of get_matching_blocks(): the longest block m, then the
\* blocks to its left and to its right
RECURSIVE matching(_, _, _, _, _, _)
RECURSIVE matching_around(_, _, _, _, _, _, _)
matching_around(a, b, alo, ahi, blo, bhi, m) ==
    IF m.k = 0 THEN 0
    ELSE m.k + matching(a, b, alo, m.i - 1, blo, m.j - 1)
             + matching(a, b, m.i + m.k, ahi, m.j + m.k, bhi)

matching(a, b, alo, ahi, blo, bhi) ==
    IF alo > ahi \/ blo > bhi THEN 0
    ELSE matching_around(a, b, alo, ahi, blo, bhi,
                         find_longest_match(a, b, alo, ahi, blo, bhi))

\* ratio() = 2.0 * matches / (len(a) + len(b)), kept as an exact fraction
ratio(a, b) ==
    IF Len(a) + Len(b) = 0 THEN [num |-> 1, den |-> 1]
    ELSE [num |-> 2 * matching(a, b, 1, Len(a), 1, Len(b)), den |-> Len(a) + Len(b)]

\* comparisons of two ratios, and of a ratio with the threshold
SimGE(x, y) == x.num * y.den >= y.num * x.den
SimGT(x, y) == x.num * y.den > y.num * x.den

\* a threshold every pair passes
any_similarity == [num |-> 0, den |-> 1]

\* similarity_threshold=0.7
ThresholdNum == 7
ThresholdDen == 10
similarity_threshold == [num |-> ThresholdNum, den |-> ThresholdDen]

(***************************************************************************)
(* Ordering of keys: S3 lists keys in byte order; the local walk is        *)
(* modelled in the same order                                              *)
(***************************************************************************)
Alphabet == <<"\"", "-", ".", "/", "0", "1", "2", "3", "4", "5", "6", "7", "8", "9",
              "A", "B", "C", "D", "E", "F", "G", "H", "I", "J", "K", "L", "M",
              "N", "O", "P", "Q", "R", "S", "T", "U", "V", "W", "X", "Y", "Z", "_",
              "a", "b", "c", "d", "e", "f", "g", "h", "i", "j", "k", "l", "m",
              "n", "o", "p", "q", "r", "s", "t", "u", "v", "w", "x", "y", "z">>

\* the rank of every character, computed once
OrdMemo == [c \in Range(Alphabet) |-> CHOOSE i \in 1..Len(Alphabet) : Alphabet[i] = c] @@ <<>>

ord(c) == OrdMemo[c]

RECURSIVE KeyLess(_, _)
KeyLess(a, b) ==
    IF a = <<>> THEN b # <<>>
    ELSE IF b = <<>> THEN FALSE
    ELSE IF Head(a) = Head(b) THEN KeyLess(Tail(a), Tail(b))
    ELSE ord(Head(a)) < ord(Head(b))

RECURSIVE SortKeys(_)
SortKeys(S) ==
    IF S = {} THEN <<>>
    ELSE LET m == CHOOSE x \in S : \A y \in S \ {x} : KeyLess(x, y)
         IN <<m>> \o SortKeys(S \ {m})

(***************************************************************************)
(* Configuration (s3_config.py / aws_config.py) and module constants       *)
(***************************************************************************)
S3_PREFIX == <<"g","a","m","e","s","/","p","u","l","l","-","t","a","b","s","/">>

\* SKIP_EXTENSIONS of sync_to_s3.py
SKIP_EXTENSIONS == {<<".","p","s","d">>}

\* skip_files of scan_local_files (both scripts)
skip_files == {<<".","s","3","-","s","y","n","c","-","m","e","t","a","d","a","t","a",".","j","s","o","n">>, <<"g","e","n","e","r","a","t","e","-","i","n","d","e","x",".","j","s">>, <<"R","E","A","D","M","E",".","m","d">>}

ARCHIVE == <<"a","r","c","h","i","v","e">>

(***************************************************************************)
(* The local tree and the bucket                                           *)
(*   fs    = [files : path -> content hash, dirs : set of directory paths] *)
(*   store = key -> [ETag, Size]                                           *)
(* Local paths are written relative to the project root.                   *)
(***************************************************************************)
QUOTE == "\""

\* the MD5 the hasher returns is the token h; S3 reports it as "h" in quotes
ETagOf(h) == <<QUOTE, h, QUOTE>>

\* str.strip('"')
RECURSIVE lstripq(_)
lstripq(e) == IF e # <<>> /\ Head(e) = QUOTE THEN lstripq(Tail(e)) ELSE e
RECURSIVE rstripq(_)
rstripq(e) == IF e # <<>> /\ e[Len(e)] = QUOTE THEN rstripq(SubSeq(e, 1, Len(e) - 1)) ELSE e
strip_quotes(e) == rstripq(lstripq(e))

\* calculate_local_etag returns None for an unreadable file
NoHash == "none"

isfile(fs, p) == p \in DOMAIN fs.files
isdir(fs, p) == p = <<>> \/ p \in fs.dirs
exists(fs, p) == isfile(fs, p) \/ isdir(fs, p)

\* os.path.join(a, b)
join(a, b) == IF a = <<>> THEN b ELSE IF b = <<>> THEN a ELSE a \o <<"/">> \o b

\* the directories above a path, the root left out
RECURSIVE ancestors(_)
ancestors(p) == IF dirname(p) = <<>> THEN {} ELSE {dirname(p)} \cup ancestors(dirname(p))

\* path components
RECURSIVE split(_)
split(p) == IF ~contains(p, "/") THEN <<p>>
            ELSE LET i == CHOOSE k \in 1..Len(p) : p[k] = "/" /\ \A j \in 1..(k-1) : p[j] # "/"
                 IN <<SubSeq(p, 1, i - 1)>> \o split(SubSeq(p, i + 1, Len(p)))

\* calculate_local_etag
calculate_local_etag(fs, p) == IF isfile(fs, p) THEN fs.files[p] ELSE NoHash

(***************************************************************************)
(* scan_local_files: ordered map rel_path -> [hash, path], as a sequence   *)
(* of entries [rel, hash, path]                                            *)
(***************************************************************************)
\* os.path.normpath on a project-relative path: a trailing separator goes
RECURSIVE normpath(_)
normpath(p) == IF p # <<>> /\ p[Len(p)] = "/" THEN normpath(SubSeq(p, 1, Len(p) - 1)) ELSE p

\* the files os.walk(local_path) visits
walk(fs, local_path) ==
    SortKeys({p \in DOMAIN fs.files :
                local_path = <<>> \/ startswith(p, local_path \o <<"/">>)})

\* os.path.relpath(file_path, local_path) for a file under local_path
relpath(file_path, local_path) ==
    IF local_path = <<>> THEN file_path ELSE after(file_path, local_path \o <<"/">>)

\* the directory names between the scan root and the file
dir_components(rel) == LET c == split(rel) IN Range(SubSeq(c, 1, Len(c) - 1))

\* sync_to_s3.py: skips names, extensions and 'archive' directories
scan_local_files_to(fs, local_path0) ==
    LET local_path == normpath(local_path0)
        entry(p, rel) == [rel |-> rel, hash |-> calculate_local_etag(fs, p), path |-> p]
    IN IF ~exists(fs, local_path) THEN <<>>
       ELSE IF isfile(fs, local_path)
       THEN LET filename == basename(local_path)
                file_ext == lower(splitext1(filename))
            IN IF /\ filename \notin skip_files
                  /\ file_ext \notin SKIP_EXTENSIONS
                  /\ calculate_local_etag(fs, local_path) # NoHash
               THEN <<entry(local_path, filename)>>
               ELSE <<>>
       ELSE LET kept(p) == /\ ARCHIVE \notin dir_components(relpath(p, local_path))
                           /\ basename(p) \notin skip_files
                           /\ lower(splitext1(basename(p))) \notin SKIP_EXTENSIONS
                           /\ calculate_local_etag(fs, p) # NoHash
                ps == SelectSeq(walk(fs, local_path), kept)
            IN [i \in 1..Len(ps) |-> entry(ps[i], relpath(ps[i], local_path))]

\* sync_from_s3.py: skips names only
scan_local_files_from(fs, local_path0) ==
    LET local_path == normpath(local_path0)
        entry(p, rel) == [rel |-> rel, hash |-> calculate_local_etag(fs, p), path |-> p]
    IN IF ~exists(fs, local_path) THEN <<>>
       ELSE IF isfile(fs, local_path)
       THEN LET filename == basename(local_path)
            IN IF /\ filename \notin skip_files
                  /\ calculate_local_etag(fs, local_path) # NoHash
               THEN <<entry(local_path, filename)>>
               ELSE <<>>
       ELSE LET kept(p) == /\ basename(p) \notin skip_files
                           /\ calculate_local_etag(fs, p) # NoHash
                ps == SelectSeq(walk(fs, local_path), kept)
            IN [i \in 1..Len(ps) |-> entry(ps[i], relpath(ps[i], local_path))]

\* dict helpers on entry sequences
rels(local_files) == {local_files[i].rel : i \in 1..Len(local_files)}
entryOf(local_files, rel) ==
    local_files[CHOOSE i \in 1..Len(local_files) : local_files[i].rel = rel]

(***************************************************************************)
(* parse_project_path (the same in both scripts)                           *)
(***************************************************************************)
\* no --prefix given
NoOverride == <<>>

\* is_likely_file: the guess of parse_project_path for a path missing locally
is_likely_file(project_path) ==
    LET basen == basename(project_path)
        \* basename.split('.')[-1] not in ['', '/']
        last_part == SubSeq(basen, rindex(basen, ".") + 1, Len(basen))
        has_extension == contains(basen, ".") /\ last_part \notin {<<>>, <<"/">>}
    IN has_extension /\ ~contains(basen, "/")

parse_project_path(fs, project_path0, prefix_override) ==
    LET project_path == lstrip(project_path0, "/")
        local_path == normpath(project_path)
        as_dir == LET q == S3_PREFIX \o project_path
                  IN IF endswith(q, <<"/">>) THEN q ELSE q \o <<"/">>
        s3_prefix ==
            IF prefix_override # <<>>
            THEN IF endswith(prefix_override, <<"/">>) THEN prefix_override
                 ELSE prefix_override \o <<"/">>
            ELSE IF exists(fs, local_path) /\ isdir(fs, local_path) THEN as_dir
            ELSE IF exists(fs, local_path) /\ isfile(fs, local_path) THEN S3_PREFIX
            ELSE IF is_likely_file(project_path) THEN S3_PREFIX
            ELSE as_dir
    IN [s3_prefix |-> s3_prefix, local_path |-> local_path]

(***************************************************************************)
(* The object store calls                                                  *)
(***************************************************************************)
object(store, k) == [Key |-> k, ETag |-> store[k].ETag, Size |-> store[k].Size]

\* list_all_objects: every object under the prefix, in key order
list_all_objects(store, prefix) ==
    LET ks == SortKeys({k \in DOMAIN store : prefix = <<>> \/ startswith(k, prefix)})
    IN [i \in 1..Len(ks) |-> object(store, ks[i])]

\* the head_object probe of sync_single_path: one mock entry, or none on 404
head_object(store, s3_key) ==
    IF s3_key \in DOMAIN store
    THEN LET etag0 == store[s3_key].ETag
             etag == IF startswith(etag0, <<QUOTE>>) /\ endswith(etag0, <<QUOTE>>)
                     THEN SubSeq(etag0, 2, Len(etag0) - 1) ELSE etag0
         IN <<[Key |-> s3_key, ETag |-> etag, Size |-> store[s3_key].Size]>>
    ELSE <<>>

\* a folder marker: key.endswith('/') and Size == 0
is_marker(obj) == endswith(obj.Key, <<"/">>) /\ obj.Size = 0

\* the relative path of a key: the prefix stripped when the key has it
rel_of(key, s3_prefix) ==
    IF s3_prefix # <<>> /\ startswith(key, s3_prefix) THEN after(key, s3_prefix) ELSE key

(***************************************************************************)
(* Rename detection                                                        *)
(***************************************************************************)
\* the base names the model's files can have, for the memo below
BaseNames ==
    { <<"l","o","g","o",".","p","n","g">>,
      <<"l","o","g","o","1",".","p","n","g">>,
      <<"l","o","g","o","1","2",".","p","n","g">>,
      <<"l","o","g","o","-","o","l","d",".","p","n","g">>,
      <<"a",".","p","n","g">>,
      <<"i","n","d","e","x",".","h","t","m","l">>,
      <<"a",".","p","n","g",".","b","a","k">> }

\* ratio() evaluated once per pair of names
SimMemo == [p \in BaseNames \X BaseNames |-> ratio(p[1], p[2])] @@ <<>>

calculate_filename_similarity(name1, name2) ==
    IF name1 \in BaseNames /\ name2 \in BaseNames THEN SimMemo[<<name1, name2>>]
    ELSE ratio(name1, name2)

\* the keys of a dict built by first insertion
RECURSIVE Distinct(_)
Distinct(s) ==
    IF s = <<>> THEN <<>>
    ELSE <<Head(s)>> \o Distinct(SelectSeq(Tail(s), LAMBDA x : x # Head(s)))

\* the candidates left in the order they were found
no_sort(c) == c

\* list.sort(key=similarity, reverse=True): stable, highest first
RECURSIVE sort_by_similarity(_)
sort_by_similarity(c) ==
    IF c = <<>> THEN <<>>
    ELSE LET s == sort_by_similarity(SubSeq(c, 1, Len(c) - 1))
             x == c[Len(c)]
             n == Cardinality({i \in 1..Len(s) : SimGE(s[i].similarity, x.similarity)})
         IN SubSeq(s, 1, n) \o <<x>> \o SubSeq(s, n + 1, Len(s))

\* the non-marker objects of a listing as (key, rel_path, filename, etag)
s3_entries(s3_objects, s3_prefix) ==
    LET objs == SelectSeq(s3_objects, LAMBDA o : ~is_marker(o))
    IN [i \in 1..Len(objs) |->
          [key |-> objs[i].Key,
           rel |-> rel_of(objs[i].Key, s3_prefix),
           filename |-> basename(rel_of(objs[i].Key, s3_prefix)),
           etag |-> strip_quotes(objs[i].ETag)]]

candidate(l, e) ==
    [local_path |-> l.rel, local_filename |-> basename(l.rel),
     s3_key |-> e.key, s3_rel_path |-> e.rel, s3_filename |-> e.filename,
     similarity |-> calculate_filename_similarity(basename(l.rel), e.filename)]

\* sync_from_s3.py, first pass: local entries outer, S3 entries inner
potential_renames_from(local_files, s3_objects, s3_prefix, already_matched_files) ==
    LET s3all == s3_entries(s3_objects, s3_prefix)
        s3_paths_set == {s3all[i].rel : i \in 1..Len(s3all)}
        s3h == SelectSeq(s3all, LAMBDA e : e.etag # <<>>)
        loc == SelectSeq(local_files, LAMBDA l :
                   l.rel \notin already_matched_files /\ l.rel \notin s3_paths_set)
        hashes == Distinct([i \in 1..Len(loc) |-> <<loc[i].hash>>])
        \* a local file whose hash is that of an already matched S3 path is skipped
        skipped(l) == \E i \in 1..Len(s3h) :
                         s3h[i].etag = <<l.hash>> /\ s3h[i].rel \in already_matched_files
        forLocal(l) ==
            IF skipped(l) THEN <<>>
            ELSE LET es == SelectSeq(s3h, LAMBDA e : e.etag = <<l.hash>>)
                     cs == [i \in 1..Len(es) |-> candidate(l, es[i])]
                 IN SelectSeq(cs, LAMBDA c : SimGE(c.similarity, similarity_threshold))
        forHash(h) ==
            LET ls == SelectSeq(loc, LAMBDA l : <<l.hash>> = h)
            IN FlattenSeq([i \in 1..Len(ls) |-> forLocal(ls[i])])
    IN FlattenSeq([i \in 1..Len(hashes) |-> forHash(hashes[i])])

\* sync_from_s3.py, second pass: only the local path is tracked as claimed
RECURSIVE assign_from(_, _)
assign_from(cands, renames) ==
    IF cands = <<>> THEN renames
    ELSE LET c == Head(cands)
             taken == {renames[i].local_path : i \in 1..Len(renames)}
         IN assign_from(Tail(cands),
                        IF c.local_path \notin taken THEN Append(renames, c) ELSE renames)

detect_renames_from(local_files, s3_objects, s3_prefix, already_matched_files) ==
    assign_from(
        sort_by_similarity(
            potential_renames_from(local_files, s3_objects, s3_prefix, already_matched_files)),
        <<>>)

\* sync_to_s3.py, first pass: S3 entries outer, local entries inner
potential_renames_to(local_files, s3_objects, s3_prefix, already_matched_files) ==
    LET loc == SelectSeq(local_files, LAMBDA l : l.rel \notin already_matched_files)
        local_paths_set == rels(local_files)
        matched_hash(etag) == \E i \in 1..Len(local_files) :
                                 /\ <<local_files[i].hash>> = etag
                                 /\ local_files[i].rel \in already_matched_files
        s3h == SelectSeq(s3_entries(s3_objects, s3_prefix), LAMBDA e :
                   /\ e.rel \notin local_paths_set
                   /\ e.etag # <<>>
                   /\ ~matched_hash(e.etag))
        hashes == Distinct([i \in 1..Len(s3h) |-> s3h[i].etag])
        forEntry(e) ==
            LET ls == SelectSeq(loc, LAMBDA l : <<l.hash>> = e.etag)
                cs == [i \in 1..Len(ls) |-> candidate(ls[i], e)]
            IN SelectSeq(cs, LAMBDA c : SimGE(c.similarity, similarity_threshold))
        forHash(h) ==
            LET es == SelectSeq(s3h, LAMBDA e : e.etag = h)
            IN FlattenSeq([i \in 1..Len(es) |-> forEntry(es[i])])
    IN FlattenSeq([i \in 1..Len(hashes) |-> forHash(hashes[i])])

\* sync_to_s3.py, second pass: the S3 key and the local path are both claimed
RECURSIVE assign_to(_, _)
assign_to(cands, renames) ==
    IF cands = <<>> THEN renames
    ELSE LET c == Head(cands)
             keys == {renames[i].s3_key : i \in 1..Len(renames)}
             claimed_local_files == {renames[i].local_path : i \in 1..Len(renames)}
         IN assign_to(Tail(cands),
                      IF c.s3_key \notin keys /\ c.local_path \notin claimed_local_files
                      THEN Append(renames, c) ELSE renames)

detect_renames_to(local_files, s3_objects, s3_prefix, already_matched_files) ==
    assign_to(
        sort_by_similarity(
            potential_renames_to(local_files, s3_objects, s3_prefix, already_matched_files)),
        <<>>)

\* the caller's already_matched_files: same relative path, same hash
already_matched(local_files, s3_objects, s3_prefix) ==
    LET es == s3_entries(s3_objects, s3_prefix)
    IN {l.rel : l \in {x \in Range(local_files) :
                         \E i \in 1..Len(es) :
                            /\ es[i].rel = x.rel
                            /\ es[i].etag = <<x.hash>>
                            /\ \A j \in (i+1)..Len(es) : es[j].rel # x.rel}}

(***************************************************************************)
(* The mutating calls.  An operation is [op, target, src]; the environment *)
(* decides which operations fail (the set fails); under dry_run each call  *)
(* returns True at once and touches nothing.                               *)
(***************************************************************************)
Op(op, target, src) == [op |-> op, target |-> target, src |-> src]

\* upload_file / delete_s3_object / download_file / delete_local_file: the
\* result of the call
call_ok(o, dry_run, fails) == dry_run \/ o \notin fails

\* a call that ignores dry_run
always_acts(dry_run) == TRUE

\* a call that acts under dry_run and only then
acts_in_dry_run_only(dry_run) == dry_run

\* upload_file: whether the call reaches s3_client.upload_file
upload_file_acts(dry_run) == ~dry_run
\* delete_s3_object: whether the call reaches s3_client.delete_object
delete_s3_object_acts(dry_run) == ~dry_run
\* download_file: whether the call reaches s3_client.download_file
download_file_acts(dry_run) == ~dry_run
\* delete_local_file: whether the call reaches os.remove
delete_local_file_acts(dry_run) == ~dry_run

acts(o, dry_run) ==
    CASE o.op = "upload" -> upload_file_acts(dry_run)
      [] o.op = "delete_object" -> delete_s3_object_acts(dry_run)
      [] o.op = "download" -> download_file_acts(dry_run)
      [] o.op = "delete_local" -> delete_local_file_acts(dry_run)

remove_key(f, k) == [x \in DOMAIN f \ {k} |-> f[x]]
put_key(f, k, v) == [x \in DOMAIN f \cup {k} |-> IF x = k THEN v ELSE f[x]]

\* the effect of one successful call on (fs, store)
effect(w, o) ==
    CASE o.op = "upload" ->
           [w EXCEPT !.store = put_key(w.store, o.target,
                                       [ETag |-> ETagOf(w.fs.files[o.src]), Size |-> 1])]
      [] o.op = "delete_object" ->
           [w EXCEPT !.store = remove_key(w.store, o.target)]
      [] o.op = "download" ->
           \* create_local_directory, then the object's bytes land in the file
           [w EXCEPT !.fs = [files |-> put_key(w.fs.files, o.target,
                                               strip_quotes(w.store[o.src].ETag)[1]),
                             dirs |-> w.fs.dirs \cup ancestors(o.target)]]
      [] o.op = "delete_local" ->
           \* os.remove, then rmdir of the parent when it is left empty
           IF ~isfile(w.fs, o.target) THEN w
           ELSE LET files == remove_key(w.fs.files, o.target)
                    parent == dirname(o.target)
                    empty == /\ parent # <<>>
                             /\ parent \in w.fs.dirs
                             /\ \A p \in DOMAIN files : dirname(p) # parent
                             /\ \A d \in w.fs.dirs : dirname(d) # parent
                IN [w EXCEPT !.fs = [files |-> files,
                                     dirs |-> IF empty THEN w.fs.dirs \ {parent}
                                              ELSE w.fs.dirs]]

\* the calls of a sequence applied in order; only those that act and succeed
\* change anything
RECURSIVE apply_ops(_, _, _, _)
apply_ops(w, ops, dry_run, fails) ==
    IF ops = <<>> THEN w
    ELSE LET o == Head(ops)
             w1 == IF acts(o, dry_run) /\ call_ok(o, dry_run, fails) THEN effect(w, o) ELSE w
         IN apply_ops(w1, Tail(ops), dry_run, fails)

\* a log that ends with the first call that fails
RECURSIVE logged_until_failure(_, _, _)
logged_until_failure(ops, dry_run, fails) ==
    IF ops = <<>> THEN <<>>
    ELSE IF ~acts(Head(ops), dry_run) THEN logged_until_failure(Tail(ops), dry_run, fails)
    ELSE <<[op |-> Head(ops).op, target |-> Head(ops).target, src |-> Head(ops).src,
            ok |-> call_ok(Head(ops), dry_run, fails)]>>
         \o IF call_ok(Head(ops), dry_run, fails)
            THEN logged_until_failure(Tail(ops), dry_run, fails) ELSE <<>>

\* the log of mutating calls actually issued: [op, target, src, ok]
logged(ops, dry_run, fails) ==
    LET real == SelectSeq(ops, LAMBDA o : acts(o, dry_run))
    IN [i \in 1..Len(real) |->
          [op |-> real[i].op, target |-> real[i].target, src |-> real[i].src,
           ok |-> call_ok(real[i], dry_run, fails)]]


(***************************************************************************)
(* sync_to_s3: the upload executor                                         *)
(***************************************************************************)
\* s3_files of sync_to_s3: every non-marker object, keyed by relative path
s3_files_of(s3_objects, s3_prefix) == s3_entries(s3_objects, s3_prefix)

s3_rels(es) == {es[i].rel : i \in 1..Len(es)}
s3_entry(es, rel) == es[CHOOSE i \in 1..Len(es) :
                          es[i].rel = rel /\ \A j \in (i+1)..Len(es) : es[j].rel # rel]

\* the folder markers in scope
folder_markers_of(s3_objects, sync_scope_prefix) ==
    LET ms == SelectSeq(s3_objects, LAMBDA o :
                  is_marker(o) /\ startswith(o.Key, sync_scope_prefix))
    IN [i \in 1..Len(ms) |-> ms[i].Key]

\* a loop that uploads nothing
uploads_never(local_files, s3_objects, s3_prefix, force) == <<>>

\* the upload call of each file of todo, in order
uploads_of(todo, s3_files, s3_prefix) ==
    [i \in 1..Len(todo) |->
        [kind |-> IF todo[i].rel \in s3_rels(s3_files) THEN "update" ELSE "new",
         rel |-> todo[i].rel,
         call |-> Op("upload", s3_prefix \o todo[i].rel, todo[i].path)]]

\* the files the "Process local files" loop uploads, given s3_files
upload_todo(local_files, s3_objects, s3_prefix, force, s3_files) ==
    SelectSeq(local_files, LAMBDA l :
        /\ ~(l.rel \in already_matched(local_files, s3_objects, s3_prefix) /\ ~force)
        /\ (l.rel \in s3_rels(s3_files) =>
              (force \/ <<l.hash>> # s3_entry(s3_files, l.rel).etag)))

\* the uploads of the "Process local files" loop, in order
uploads_to(local_files, s3_objects, s3_prefix, force) ==
    uploads_of(upload_todo(local_files, s3_objects, s3_prefix, force,
                           s3_files_of(s3_objects, s3_prefix)),
               s3_files_of(s3_objects, s3_prefix), s3_prefix)

\* orphaned_keys: in S3, not local, not a skipped extension, inside the scope
orphaned_keys_to(local_files, s3_objects, s3_prefix, sync_scope_prefix) ==
    LET s3_files == s3_files_of(s3_objects, s3_prefix)
        keep == SelectSeq(s3_files, LAMBDA e :
                   /\ e = s3_entry(s3_files, e.rel)
                   /\ lower(splitext1(e.rel)) \notin SKIP_EXTENSIONS
                   /\ e.rel \notin rels(local_files)
                   /\ startswith(e.key, sync_scope_prefix))
    IN [i \in 1..Len(keep) |->
          [rel |-> keep[i].rel, call |-> Op("delete_object", keep[i].key, <<>>)]]

\* what sync_to_s3 is going to call, given the orphaned keys it found
sync_to_s3_calls_with(local_files, s3_objects, s3_prefix, force, sync_scope_prefix, orphaned_keys) ==
    LET s3_files == s3_files_of(s3_objects, s3_prefix)
        all_deleted == local_files = <<>> /\ Len(orphaned_keys) > 0
        marks == IF all_deleted THEN folder_markers_of(s3_objects, sync_scope_prefix) ELSE <<>>
    IN [ups |-> uploads_to(local_files, s3_objects, s3_prefix, force) \o <<>>,
        orphaned_keys |-> orphaned_keys \o <<>>,
        mark_calls |-> [i \in 1..Len(marks) |-> Op("delete_object", marks[i], <<>>)] \o <<>>,
        folder_is_new |-> /\ local_files # <<>> /\ Len(s3_files) = 0
                          /\ sync_scope_prefix # <<>>
                          /\ endswith(sync_scope_prefix, <<"/">>),
        all_deleted |-> all_deleted,
        directory_scope |-> sync_scope_prefix # <<>> /\ endswith(sync_scope_prefix, <<"/">>)]

\* what sync_to_s3 is going to call, settled before the first call
sync_to_s3_calls(local_files, s3_objects, s3_prefix, force, sync_scope_prefix) ==
    sync_to_s3_calls_with(local_files, s3_objects, s3_prefix, force, sync_scope_prefix,
                          orphaned_keys_to(local_files, s3_objects, s3_prefix,
                                           sync_scope_prefix))

\* the deletions made before the uploads
calls_deleting_first(c) ==
    [i \in 1..Len(c.orphaned_keys) |-> c.orphaned_keys[i].call]
    \o [i \in 1..Len(c.ups) |-> c.ups[i].call]
    \o c.mark_calls

\* the calls of c in the order sync_to_s3 makes them
calls_to(c) ==
    [i \in 1..Len(c.ups) |-> c.ups[i].call]
    \o [i \in 1..Len(c.orphaned_keys) |-> c.orphaned_keys[i].call]
    \o c.mark_calls

\* sync_to_s3 making those calls, the calls in fails failing
sync_to_s3_run(w, c, dry_run, fails) ==
    LET ok(o) == call_ok(o, dry_run, fails)
        uploaded == Len(SelectSeq(c.ups, LAMBDA u : u.kind = "new" /\ ok(u.call)))
        marks_deleted == Len(SelectSeq(c.mark_calls, ok))
        calls == calls_to(c)
    IN [w |-> apply_ops(w, calls, dry_run, fails),
        log |-> logged(calls, dry_run, fails),
        calls |-> calls,
        created |-> {u.rel : u \in {x \in Range(c.ups) : x.kind = "new"}},
        changed |-> {u.rel : u \in {x \in Range(c.ups) : x.kind = "update"}},
        renames |-> <<>>,
        orphaned |-> [i \in 1..Len(c.orphaned_keys) |-> c.orphaned_keys[i].call.target] \o <<>>,
        tally |-> [uploaded |-> uploaded,
                   updated |-> Len(SelectSeq(c.ups, LAMBDA u : u.kind = "update" /\ ok(u.call))),
                   deleted |-> Len(SelectSeq(c.orphaned_keys, LAMBDA d : ok(d.call))),
                   renamed |-> 0,
                   folders_deleted |->
                       IF ~c.all_deleted THEN 0
                       ELSE IF marks_deleted > 0 THEN marks_deleted
                       ELSE IF c.directory_scope THEN 1
                       ELSE 0,
                   folders_added |-> IF c.folder_is_new /\ uploaded >= 1 THEN 1 ELSE 0,
                   failed |-> Len(SelectSeq(c.ups, LAMBDA u : ~ok(u.call)))
                              + Len(SelectSeq(c.orphaned_keys, LAMBDA d : ~ok(d.call)))
                              + Len(SelectSeq(c.mark_calls, LAMBDA o : ~ok(o)))]]

sync_to_s3(w, local_files, s3_objects, s3_prefix, force, dry_run, sync_scope_prefix, fails) ==
    sync_to_s3_run(w, sync_to_s3_calls(local_files, s3_objects, s3_prefix, force,
                                       sync_scope_prefix),
                   dry_run, fails)

(***************************************************************************)
(* sync_from_s3: the download executor.  The deletion prompt splits it:    *)
(* part A runs the transfers and the renames and collects the orphans,     *)
(* part B runs after the answer.                                           *)
(***************************************************************************)
tally0 == [uploaded |-> 0, updated |-> 0, deleted |-> 0, renamed |-> 0,
           folders_deleted |-> 0, folders_added |-> 0, failed |-> 0]

is_directory_scope(sync_scope_prefix) ==
    sync_scope_prefix # <<>> /\ endswith(sync_scope_prefix, <<"/">>)

\* is_file_sync of sync_from_s3
is_file_sync_of(fs, local_base_path, sync_scope_prefix) ==
    IF exists(fs, local_base_path) THEN isfile(fs, local_base_path)
    ELSE ~is_directory_scope(sync_scope_prefix)

\* where an S3 relative path lands locally
local_target(fs, local_base_path, sync_scope_prefix, rel) ==
    IF is_file_sync_of(fs, local_base_path, sync_scope_prefix) THEN local_base_path
    ELSE normpath(join(local_base_path, rel))

\* the downloads of the "Process S3 files" loop, in order
downloads_from(fs, local_files, s3_objects, s3_prefix, local_base_path, force, sync_scope_prefix, renames) ==
    LET s3_files == s3_files_of(s3_objects, s3_prefix)
        rename_new_paths == {renames[i].s3_rel_path : i \in 1..Len(renames)}
        todo == SelectSeq(s3_files, LAMBDA e :
                   /\ e = s3_entry(s3_files, e.rel)
                   /\ e.rel \notin rename_new_paths
                   /\ (e.rel \in rels(local_files) =>
                         (force \/ <<entryOf(local_files, e.rel).hash>> # e.etag)))
    IN [i \in 1..Len(todo) |->
          [kind |-> IF todo[i].rel \in rels(local_files) THEN "update" ELSE "new",
           rel |-> todo[i].rel,
           call |-> Op("download",
                       local_target(fs, local_base_path, sync_scope_prefix, todo[i].rel),
                       todo[i].key)]]

\* the two halves of each rename: delete the old local file, download the new
rename_calls_from(fs, local_files, local_base_path, sync_scope_prefix, renames) ==
    [i \in 1..Len(renames) |->
        [old |-> renames[i].local_path, new |-> renames[i].s3_rel_path,
         del |-> Op("delete_local", entryOf(local_files, renames[i].local_path).path, <<>>),
         get |-> Op("download",
                    local_target(fs, local_base_path, sync_scope_prefix,
                                 renames[i].s3_rel_path),
                    renames[i].s3_key)]]

\* orphaned_local_files: local, not in S3, not a rename source, inside the scope
orphaned_local_files_from(fs, local_files, s3_objects, s3_prefix, local_base_path, sync_scope_prefix, renames) ==
    LET s3_files == s3_files_of(s3_objects, s3_prefix)
        rename_old_paths == {renames[i].local_path : i \in 1..Len(renames)}
        in_scope(l) ==
            IF is_file_sync_of(fs, local_base_path, sync_scope_prefix) THEN TRUE
            ELSE startswith(s3_prefix \o relpath(l.path, local_base_path), sync_scope_prefix)
        keep == SelectSeq(local_files, LAMBDA l :
                   /\ l.rel \notin rename_old_paths
                   /\ l.rel \notin s3_rels(s3_files)
                   /\ in_scope(l))
    IN [i \in 1..Len(keep) |->
          [rel |-> keep[i].rel, call |-> Op("delete_local", keep[i].path, <<>>)]]

\* what sync_from_s3 is going to call, given the renames it detected
sync_from_s3_calls_with(fs, local_files, s3_objects, s3_prefix, local_base_path, force, sync_scope_prefix, renames) ==
    [renames |-> [i \in 1..Len(renames) |->
                    [old |-> renames[i].local_path, new |-> renames[i].s3_rel_path]]
                 \o <<>>,
     downs |-> downloads_from(fs, local_files, s3_objects, s3_prefix, local_base_path,
                              force, sync_scope_prefix, renames) \o <<>>,
     rens |-> rename_calls_from(fs, local_files, local_base_path, sync_scope_prefix,
                                renames) \o <<>>,
     orphaned_local_files |->
         orphaned_local_files_from(fs, local_files, s3_objects, s3_prefix,
                                   local_base_path, sync_scope_prefix, renames) \o <<>>,
     folder_is_new |-> /\ Len(s3_files_of(s3_objects, s3_prefix)) > 0
                       /\ Len(local_files) = 0
                       /\ is_directory_scope(sync_scope_prefix),
     all_local_gone |-> /\ Len(local_files) > 0
                        /\ Len(s3_files_of(s3_objects, s3_prefix)) = 0
                        /\ is_directory_scope(sync_scope_prefix)]

\* what sync_from_s3 is going to call, settled before the first call
sync_from_s3_calls(fs, local_files, s3_objects, s3_prefix, local_base_path, force, sync_scope_prefix) ==
    sync_from_s3_calls_with(fs, local_files, s3_objects, s3_prefix, local_base_path, force,
                            sync_scope_prefix,
                            detect_renames_from(local_files, s3_objects, s3_prefix,
                                already_matched(local_files, s3_objects, s3_prefix))
                            \o <<>>)

\* every call part A can make
calls_from(c) ==
    [i \in 1..Len(c.downs) |-> c.downs[i].call]
    \o FlattenSeq([i \in 1..Len(c.rens) |-> <<c.rens[i].del, c.rens[i].get>>])

\* a rename counted as soon as the old file is deleted
rename_half_done(del_ok, get_ok) == del_ok

\* "if delete_local_file(...): if download_file(...): renamed += 1": a rename
\* is counted when both halves returned True
rename_done(del_ok, get_ok) == del_ok /\ get_ok

\* part A making its calls, the calls in fails failing
sync_from_s3_A(w, c, dry_run, fails) ==
    LET ok(o) == call_ok(o, dry_run, fails)
        downloaded == Len(SelectSeq(c.downs, LAMBDA d : d.kind = "new" /\ ok(d.call)))
        calls == [i \in 1..Len(c.downs) |-> c.downs[i].call]
                 \o FlattenSeq([i \in 1..Len(c.rens) |->
                        IF ok(c.rens[i].del) THEN <<c.rens[i].del, c.rens[i].get>>
                        ELSE <<c.rens[i].del>>])
    IN [w |-> apply_ops(w, calls, dry_run, fails),
        log |-> logged(calls, dry_run, fails),
        calls |-> calls,
        created |-> {d.rel : d \in {x \in Range(c.downs) : x.kind = "new"}},
        changed |-> {d.rel : d \in {x \in Range(c.downs) : x.kind = "update"}},
        renames |-> c.renames,
        orphaned |-> [i \in 1..Len(c.orphaned_local_files) |->
                         c.orphaned_local_files[i].call.target] \o <<>>,
        orphaned_local_files |-> c.orphaned_local_files,
        all_local_gone |-> c.all_local_gone,
        tally |-> [tally0 EXCEPT
                     !.uploaded = downloaded,
                     !.updated = Len(SelectSeq(c.downs, LAMBDA d : d.kind = "update" /\ ok(d.call))),
                     !.renamed = Len(SelectSeq(c.rens, LAMBDA r : rename_done(ok(r.del), ok(r.get)))),
                     !.folders_added = IF c.folder_is_new /\ downloaded >= 1 THEN 1 ELSE 0,
                     !.failed = Len(SelectSeq(c.downs, LAMBDA d : ~ok(d.call)))
                                + Len(SelectSeq(c.rens, LAMBDA r : ~rename_done(ok(r.del), ok(r.get))))]]


\* the deletions made whatever the answer
orphans_whatever_answer(orphaned_local_files, accepted) == orphaned_local_files

\* "orphaned_local_files = []" when the answer is not yes or the read ends
orphans_after_answer(orphaned_local_files, accepted) ==
    IF accepted THEN orphaned_local_files ELSE <<>>

\* part B: the deletions left after the prompt, and the folder bookkeeping
sync_from_s3_B(a, accepted, dry_run, fails) ==
    LET orphaned_local_files == orphans_after_answer(a.orphaned_local_files, accepted)
        calls == [i \in 1..Len(orphaned_local_files) |-> orphaned_local_files[i].call] \o <<>>
        ok(o) == call_ok(o, dry_run, fails)
    IN [a EXCEPT
          !.w = apply_ops(a.w, calls, dry_run, fails),
          !.log = a.log \o logged(calls, dry_run, fails),
          !.calls = a.calls \o calls,
          !.orphaned = [i \in 1..Len(calls) |-> calls[i].target] \o <<>>,
          !.orphaned_local_files = orphaned_local_files,
          !.tally = [a.tally EXCEPT
                       !.deleted = Len(SelectSeq(calls, ok)),
                       !.failed = a.tally.failed + Len(SelectSeq(calls, LAMBDA o : ~ok(o))),
                       !.folders_deleted =
                           IF a.all_local_gone /\ Len(orphaned_local_files) > 0
                           THEN 1 ELSE 0]]

\* sync_from_s3 when no prompt is in the way (dry run, or nothing to delete)
sync_from_s3(w, local_files, s3_objects, s3_prefix, local_base_path, force, dry_run, sync_scope_prefix, fails) ==
    sync_from_s3_B(
        sync_from_s3_A(w, sync_from_s3_calls(w.fs, local_files, s3_objects, s3_prefix,
                                             local_base_path, force, sync_scope_prefix),
                       dry_run, fails),
        TRUE, dry_run, fails)


\* "if orphaned_local_files and not dry_run": the deletion prompt is asked
deletion_prompt_needed(a, dry_run) == a.orphaned_local_files # <<>> /\ ~dry_run

(***************************************************************************)
(* sync_single_path: path type, scope, remote listing and the preview      *)
(***************************************************************************)
\* project_path.lstrip('/')
project_path_clean(project_path) == lstrip(project_path, "/")

\* is_file: the type of the path, or the guess for a path missing locally
is_file_of(fs, project_path, local_path) ==
    IF exists(fs, local_path) THEN isfile(fs, local_path)
    ELSE /\ contains(basename(project_path_clean(project_path)), ".")
         /\ ~contains(project_path_clean(project_path), "/")

filename_of(fs, project_path, local_path) ==
    IF exists(fs, local_path) THEN basename(local_path)
    ELSE basename(project_path_clean(project_path))

\* sync_scope_prefix: the file's key for a file, the prefix for a directory
sync_scope_prefix_of(is_file, s3_prefix, filename) ==
    IF is_file THEN s3_prefix \o filename ELSE s3_prefix

\* the prefix listed for a file as it is for a directory
remote_objects_listed(store, is_file, s3_prefix, filename) ==
    list_all_objects(store, s3_prefix)

\* s3_objects: the head_object probe for a file, the listing for a directory
remote_objects(store, is_file, s3_prefix, filename) ==
    IF is_file THEN head_object(store, s3_prefix \o filename)
    ELSE list_all_objects(store, s3_prefix)

\* what sync_single_path knows before the preview, given the parsed path pp,
\* the path type and the file name, and the local files found
path_info(store, project_path, pp, is_file, filename, local_files) ==
    [project_path |-> project_path, s3_prefix |-> pp.s3_prefix,
     local_path |-> pp.local_path, is_file |-> is_file,
     local_files |-> local_files,
     sync_scope_prefix |-> sync_scope_prefix_of(is_file, pp.s3_prefix, filename),
     s3_objects |-> remote_objects(store, is_file, pp.s3_prefix, filename)]

\* sync_single_path of sync_to_s3.py from the parsed path on
path_info_to_at(fs, store, project_path, pp) ==
    path_info(store, project_path, pp,
              is_file_of(fs, project_path, pp.local_path),
              filename_of(fs, project_path, pp.local_path),
              IF exists(fs, pp.local_path)
              THEN scan_local_files_to(fs, pp.local_path) ELSE <<>>)

\* everything sync_single_path of sync_to_s3.py knows before the preview
path_info_to(fs, store, project_path, prefix_override) ==
    path_info_to_at(fs, store, project_path,
                    parse_project_path(fs, project_path, prefix_override))

\* sync_single_path of sync_from_s3.py from the parsed path on
path_info_from_at(fs, store, project_path, pp) ==
    path_info(store, project_path, pp,
              is_file_of(fs, project_path, pp.local_path),
              filename_of(fs, project_path, pp.local_path),
              IF exists(fs, pp.local_path)
              THEN scan_local_files_from(fs, pp.local_path) ELSE <<>>)

\* the same for sync_from_s3.py
path_info_from(fs, store, project_path, prefix_override) ==
    path_info_from_at(fs, store, project_path,
                      parse_project_path(fs, project_path, prefix_override))

\* a preview that sees no remote file
preview_nothing(pi) == <<>>

\* s3_files of the preview: non-marker objects inside the scope
preview_s3_files(pi) ==
    SelectSeq(s3_entries(pi.s3_objects, pi.s3_prefix), LAMBDA e :
        pi.sync_scope_prefix = <<>> \/ startswith(e.key, pi.sync_scope_prefix))

\* project_path.lstrip('/').split('/')[-1]
folder_name_of(project_path) ==
    LET c == split(project_path_clean(project_path)) IN c[Len(c)]

\* the folder name a marker key stands for
marker_folder_name(key, s3_prefix) ==
    IF s3_prefix # <<>> /\ startswith(key, s3_prefix)
    THEN LET c == split(normpath(after(key, s3_prefix))) IN c[Len(c)]
    ELSE LET c == split(normpath(key)) IN c[Len(c)]

\* append without duplicates, in order
RECURSIVE append_new(_, _)
append_new(acc, names) ==
    IF names = <<>> THEN acc
    ELSE append_new(IF Head(names) # <<>> /\ Head(names) \notin Range(acc)
                    THEN Append(acc, Head(names)) ELSE acc, Tail(names))

\* the lists of the upload preview, given its s3_files
plan_to_lists(pi, force, s3_files) ==
    LET local_files == pi.local_files
        new_files == SelectSeq([i \in 1..Len(local_files) |-> local_files[i].rel],
                               LAMBDA p : p \notin s3_rels(s3_files))
        changed_files ==
            SelectSeq([i \in 1..Len(local_files) |-> local_files[i].rel], LAMBDA p :
                /\ p \in s3_rels(s3_files)
                /\ (force \/ <<entryOf(local_files, p).hash>> # s3_entry(s3_files, p).etag))
        orphaned_files ==
            SelectSeq([i \in 1..Len(s3_files) |-> s3_files[i].rel], LAMBDA p :
                /\ p \notin rels(local_files)
                /\ lower(splitext1(p)) \notin SKIP_EXTENSIONS)
        folder_markers == folder_markers_of(pi.s3_objects, pi.sync_scope_prefix)
        folders_to_delete ==
            IF local_files = <<>> /\ Len(orphaned_files) > 0
            THEN append_new(IF ~pi.is_file /\ folder_name_of(pi.project_path) # <<>>
                            THEN <<folder_name_of(pi.project_path)>> ELSE <<>>,
                            [i \in 1..Len(folder_markers) |->
                                marker_folder_name(folder_markers[i], pi.s3_prefix)])
            ELSE <<>>
        folders_to_add ==
            IF /\ ~pi.is_file /\ local_files # <<>>
               /\ Len(s3_files) = 0 /\ Len(new_files) > 0
               /\ folder_name_of(pi.project_path) # <<>>
            THEN <<folder_name_of(pi.project_path)>> ELSE <<>>
    IN [new_files |-> new_files, changed_files |-> changed_files, renames |-> <<>>,
        orphaned_files |-> orphaned_files, folders_to_delete |-> folders_to_delete,
        folders_to_add |-> folders_to_add]

\* the plan of the upload preview, by relative path
plan_to(pi, force) == plan_to_lists(pi, force, preview_s3_files(pi))

\* already_matched_files of the download preview
already_matched_files_preview(local_files, s3_files) ==
    {p \in rels(local_files) :
        /\ p \in s3_rels(s3_files)
        /\ <<entryOf(local_files, p).hash>> = s3_entry(s3_files, p).etag}

\* the renames the download preview keeps: the new key is inside the scope
preview_renames(pi, s3_files) ==
    SelectSeq(detect_renames_from(pi.local_files, pi.s3_objects, pi.s3_prefix,
                                  already_matched_files_preview(pi.local_files, s3_files)),
              LAMBDA r : pi.sync_scope_prefix = <<>>
                         \/ startswith(r.s3_key, pi.sync_scope_prefix))

\* the lists of the download preview, given its s3_files and renames
plan_from_lists(pi, s3_files, renames) ==
    LET local_files == pi.local_files
        new_files == SelectSeq([i \in 1..Len(s3_files) |-> s3_files[i].rel],
                               LAMBDA p : p \notin rels(local_files))
        changed_files ==
            SelectSeq([i \in 1..Len(local_files) |-> local_files[i].rel], LAMBDA p :
                /\ p \in s3_rels(s3_files)
                /\ <<entryOf(local_files, p).hash>> # s3_entry(s3_files, p).etag)
        orphaned_files ==
            SelectSeq([i \in 1..Len(local_files) |-> local_files[i].rel], LAMBDA p :
                /\ p \notin s3_rels(s3_files)
                /\ p \notin {renames[i].local_path : i \in 1..Len(renames)})
        has_name == folder_name_of(pi.project_path) # <<>>
    IN [new_files |-> new_files, changed_files |-> changed_files,
        renames |-> [i \in 1..Len(renames) |->
                       [old |-> renames[i].local_path, new |-> renames[i].s3_rel_path]],
        orphaned_files |-> orphaned_files,
        folders_to_delete |->
            IF Len(s3_files) = 0 /\ Len(orphaned_files) > 0 /\ ~pi.is_file /\ has_name
            THEN <<folder_name_of(pi.project_path)>> ELSE <<>>,
        folders_to_add |->
            IF /\ ~pi.is_file /\ Len(s3_files) > 0
               /\ Len(local_files) = 0 /\ Len(new_files) > 0 /\ has_name
            THEN <<folder_name_of(pi.project_path)>> ELSE <<>>]

plan_from_of(pi, s3_files) == plan_from_lists(pi, s3_files, preview_renames(pi, s3_files))

\* the plan of the download preview, by relative path
plan_from(pi) == plan_from_of(pi, preview_s3_files(pi))

\* full_path of the preview lists
full_path(pi, file_path) ==
    IF pi.is_file THEN pi.project_path
    ELSE IF file_path # <<>> THEN pi.project_path \o <<"/">> \o file_path
    ELSE pi.project_path

\* preview_info as main aggregates it
preview_info_of(pi, plan) ==
    LET full(s) == [i \in 1..Len(s) |-> full_path(pi, s[i])]
    IN [new_files |-> full(plan.new_files),
        changed_files |-> full(plan.changed_files),
        renames |-> [i \in 1..Len(plan.renames) |->
                       [old_path |-> full_path(pi, basename(plan.renames[i].old)),
                        new_path |-> full_path(pi, basename(plan.renames[i].new))]],
        orphaned_files |-> full(plan.orphaned_files),
        folders_to_delete |-> plan.folders_to_delete,
        folders_to_add |-> plan.folders_to_add,
        s3_prefix |-> pi.s3_prefix, project_path |-> pi.project_path]

(***************************************************************************)
(* The run: main() of either script over a small project                   *)
(***************************************************************************)
VARIABLES
    script,            \* "to" = sync_to_s3.py, "from" = sync_from_s3.py
    args,              \* [dry_run, yes, force, prefix]
    paths_to_sync,     \* the project paths given on the command line
    fs, store,         \* the local tree and the bucket
    fs0, store0,       \* both as they were when the run started
    pc,                \* where main() stands
    idx,               \* the path the current loop is at
    all_preview_info,  \* collected by the preview pass
    prompts,           \* every input() call: [kind, idx, answered, accepted, ops_before]
    runs,              \* one record per sync_single_path call
    totals,            \* total_uploaded .. total_failed
    pending,           \* sync_from_s3 waiting at its deletion prompt
    result,            \* what main() returned
    faults_left,       \* failures the environment may still inject
    rn,                \* inputs and outputs of the rename detection harness
    poll               \* poll_invalidation_status: its locals, and the invalidation

\* the state of the two sync scripts
sync_vars == <<script, args, paths_to_sync, fs, store, fs0, store0, pc, idx,
               all_preview_info, prompts, runs, totals, pending, result, faults_left, rn>>

vars == <<sync_vars, poll>>

\* no poll_invalidation_status call is under way
NoPoll == [pc |-> "none"]

MaxFiles == 3
MaxPaths == 2
MaxFaults == 2

INDEX_HTML == <<"i","n","d","e","x",".","h","t","m","l">>
A_PNG == <<"a",".","p","n","g">>
CSS == <<"c","s","s">>
CSS_LOGO == <<"c","s","s","/","l","o","g","o",".","p","n","g">>
CSS_LOGO_OLD == <<"c","s","s","/","l","o","g","o","-","o","l","d",".","p","n","g">>
CSS_A == <<"c","s","s","/","a",".","p","n","g">>
A_PNG_BAK == <<"a",".","p","n","g",".","b","a","k">>
CSS_MARKER == <<"c","s","s","/">>
SLASH_CSS == <<"/","c","s","s">>

Hashes == {"h1", "h2"}
\* the hash of empty content (a folder marker)
EmptyHash == "h0"

\* the files that may or may not exist beside index.html, in a fixed order
Slots == <<A_PNG, CSS_A, CSS_LOGO, CSS_LOGO_OLD>>
LocalSlots == Range(Slots)
RemoteSlots == Range(Slots)
RemoteExtras == {A_PNG_BAK, CSS_MARKER}

\* the paths a run may be given, in the order they are given
ProjectPaths == <<SLASH_CSS, A_PNG>>

\* the elements of s at the indices I, in order
Pick(s, I) ==
    [k \in 1..Cardinality(I) |->
        s[CHOOSE i \in I : Cardinality({j \in I : j < i}) = k - 1]]

PathLists ==
    {Pick(ProjectPaths, S) :
        S \in {T \in SUBSET (1..Len(ProjectPaths)) : T # {} /\ Cardinality(T) <= MaxPaths}}

Maps(S) == UNION {[T -> Hashes] : T \in SUBSET S}

\* hash names carry no meaning: the first file of the fixed order that exists
\* (locally, else remotely) has h1
Canonical(f, g) ==
    LET hs == [i \in 1..(2 * Len(Slots)) |->
                 IF i <= Len(Slots)
                 THEN IF Slots[i] \in DOMAIN f THEN f[Slots[i]] ELSE NoHash
                 ELSE IF Slots[i - Len(Slots)] \in DOMAIN g
                      THEN g[Slots[i - Len(Slots)]] ELSE NoHash]
        present == {i \in DOMAIN hs : hs[i] # NoHash}
    IN IF present = {} THEN TRUE
       ELSE hs[CHOOSE i \in present : \A j \in present : i <= j] = "h1"

\* the project root holds index.html (find_project_root)
MakeFs(f, emptyCss) ==
    [files |-> [p \in DOMAIN f \cup {INDEX_HTML} |->
                  IF p = INDEX_HTML THEN "h1" ELSE f[p]],
     dirs |-> IF emptyCss \/ \E p \in DOMAIN f : dirname(p) = CSS THEN {CSS} ELSE {}]

MakeStore(g, extras) ==
    [k \in {S3_PREFIX \o p : p \in DOMAIN g \cup extras} |->
        LET p == after(k, S3_PREFIX)
        IN IF endswith(p, <<"/">>) THEN [ETag |-> ETagOf(EmptyHash), Size |-> 0]
           ELSE IF p \in DOMAIN g THEN [ETag |-> ETagOf(g[p]), Size |-> 1]
           ELSE [ETag |-> ETagOf("h1"), Size |-> 1]]

\* every project and bucket a run may start from
Projects ==
    {[fs |-> MakeFs(c[1], c[4]), store |-> MakeStore(c[2], c[3])] :
        c \in {d \in Maps(LocalSlots) \X Maps(RemoteSlots) \X (SUBSET RemoteExtras) \X BOOLEAN :
                 /\ Cardinality(DOMAIN d[1]) + Cardinality(DOMAIN d[2])
                      + Cardinality(d[3]) <= MaxFiles
                 /\ Canonical(d[1], d[2])
                 /\ d[4] => \A p \in DOMAIN d[1] : dirname(p) # CSS}}

rn0 == [local_files |-> <<>>, s3_objects |-> <<>>, from |-> <<>>, to |-> <<>>,
        plan |-> <<>>, done |-> FALSE]

NoPending == <<>>

Init ==
    /\ \E c \in Projects : fs = c.fs /\ store = c.store
    /\ script \in {"to", "from"}
    /\ args \in [dry_run : BOOLEAN, yes : BOOLEAN, force : BOOLEAN, prefix : {NoOverride}]
    /\ paths_to_sync \in PathLists
    /\ fs0 = fs
    /\ store0 = store
    /\ pc = IF ~args.dry_run /\ ~args.yes THEN "preview" ELSE "sync"
    /\ idx = 1
    /\ all_preview_info = <<>>
    /\ prompts = <<>>
    /\ runs = <<>>
    /\ totals = tally0
    /\ pending = NoPending
    /\ result = "running"
    /\ faults_left = MaxFaults
    /\ poll = NoPoll
    /\ rn = rn0

EmptyPlan == [new_files |-> <<>>, changed_files |-> <<>>, renames |-> <<>>,
              orphaned_files |-> <<>>, folders_to_delete |-> <<>>, folders_to_add |-> <<>>]

\* a failed listing returned as if nothing had happened
no_failure_counted == tally0

\* the return value when the head_object probe or the listing fails
listing_failed_tally == [tally0 EXCEPT !.failed = 1]

\* the record kept of one sync_single_path call
run_rec(i, pass, dry_run, pi, listed, plan, x) ==
    [idx |-> i, pass |-> pass, dry_run |-> dry_run,
     project_path |-> pi.project_path, is_file |-> pi.is_file,
     s3_prefix |-> pi.s3_prefix, local_path |-> pi.local_path,
     sync_scope_prefix |-> pi.sync_scope_prefix,
     local_files |-> pi.local_files, s3_objects |-> pi.s3_objects,
     listed |-> listed, plan |-> plan,
     created |-> x.created, changed |-> x.changed, renames |-> x.renames,
     orphaned |-> x.orphaned, calls |-> x.calls, log |-> x.log, tally |-> x.tally]

nothing_done(w) ==
    [w |-> w, created |-> {}, changed |-> {}, renames |-> <<>>, orphaned |-> <<>>,
     log |-> <<>>, calls |-> <<>>, tally |-> listing_failed_tally]

\* every mutating call issued so far, in order
OpLog == FlattenSeq([i \in 1..Len(runs) |-> runs[i].log])

\* the sets of calls the environment may fail in one step
FailSets(calls, dry_run) ==
    IF dry_run \/ faults_left = 0 THEN {{}}
    ELSE {f \in SUBSET Range(calls) : Cardinality(f) <= faults_left}

add_tally(t, u) ==
    [uploaded |-> t.uploaded + u.uploaded, updated |-> t.updated + u.updated,
     deleted |-> t.deleted + u.deleted, renamed |-> t.renamed + u.renamed,
     folders_deleted |-> t.folders_deleted + u.folders_deleted,
     folders_added |-> t.folders_added + u.folders_added,
     failed |-> t.failed + u.failed]

\* sync_single_path of sync_to_s3.py from the listing on: the preview and the
\* calls sync_to_s3 would make
sync_single_path_to_at(pi, force) ==
    [pi |-> pi, plan |-> plan_to(pi, force),
     c |-> sync_to_s3_calls(pi.local_files, pi.s3_objects, pi.s3_prefix, force,
                            pi.sync_scope_prefix)]

\* sync_single_path of sync_to_s3.py, up to the call of sync_to_s3
sync_single_path_to(w, project_path, force, prefix_override) ==
    sync_single_path_to_at(path_info_to(w.fs, w.store, project_path, prefix_override), force)

\* sync_single_path of sync_from_s3.py from the listing on
sync_single_path_from_at(w, pi, force) ==
    [pi |-> pi, plan |-> plan_from(pi),
     c |-> sync_from_s3_calls(w.fs, pi.local_files, pi.s3_objects, pi.s3_prefix,
                              pi.local_path, force, pi.sync_scope_prefix)]

\* sync_single_path of sync_from_s3.py, up to the call of sync_from_s3
sync_single_path_from(w, project_path, force, prefix_override) ==
    sync_single_path_from_at(w, path_info_from(w.fs, w.store, project_path, prefix_override),
                             force)

\* the head_object probe or the listing failed: (0, 0, 0, 0, 0, 0, 1), no preview
ListingFails(pass, dry_run, pi) ==
    /\ faults_left > 0
    /\ faults_left' = faults_left - 1
    /\ runs' = Append(runs, run_rec(idx, pass, dry_run, [pi EXCEPT !.s3_objects = <<>>],
                                    FALSE, EmptyPlan,
                                    nothing_done([fs |-> fs, store |-> store])))
    /\ UNCHANGED <<fs, store>>

\* the loop of main() moves to the next path, or leaves the loop
NextPath(then) ==
    /\ idx' = idx + 1
    /\ pc' = IF idx = Len(paths_to_sync) THEN then ELSE pc

\* a sync_single_path call s returned x: its record is kept, x.w is the world
Recorded(pass, dry_run, s, x) ==
    /\ fs' = x.w.fs
    /\ store' = x.w.store
    /\ runs' = Append(runs, run_rec(idx, pass, dry_run, s.pi, TRUE, s.plan, x))

\* one preview call: the listing fails, or the dry run adds its preview_info
Previewed(s, x) ==
    \/ /\ ListingFails("preview", TRUE, s.pi)
       /\ UNCHANGED all_preview_info
    \/ /\ Recorded("preview", TRUE, s, x)
       /\ all_preview_info' = Append(all_preview_info, preview_info_of(s.pi, s.plan))
       /\ UNCHANGED faults_left

PreviewedTo(w, s) == Previewed(s, sync_to_s3_run(w, s.c, TRUE, {}))

PreviewedFrom(w, s) ==
    Previewed(s, sync_from_s3_B(sync_from_s3_A(w, s.c, TRUE, {}), TRUE, TRUE, {}))

\* first pass of default mode, sync_to_s3.py: dry_run=True, yes=True
PreviewPathTo ==
    /\ pc = "preview" /\ script = "to" /\ idx <= Len(paths_to_sync)
    /\ PreviewedTo([fs |-> fs, store |-> store],
                   sync_single_path_to([fs |-> fs, store |-> store], paths_to_sync[idx],
                                       args.force, args.prefix))
    /\ NextPath("summary")
    /\ UNCHANGED <<script, args, paths_to_sync, fs0, store0, prompts, totals, pending,
                   result, rn, poll>>

\* first pass of default mode, sync_from_s3.py
PreviewPathFrom ==
    /\ pc = "preview" /\ script = "from" /\ idx <= Len(paths_to_sync)
    /\ PreviewedFrom([fs |-> fs, store |-> store],
                     sync_single_path_from([fs |-> fs, store |-> store], paths_to_sync[idx],
                                           args.force, args.prefix))
    /\ NextPath("summary")
    /\ UNCHANGED <<script, args, paths_to_sync, fs0, store0, prompts, totals, pending,
                   result, rn, poll>>

\* str.strip(): blanks at both ends go
RECURSIVE strip(_)
strip(s) == IF s # <<>> /\ Head(s) = " " THEN strip(Tail(s))
            ELSE IF s # <<>> /\ s[Len(s)] = " " THEN strip(SubSeq(s, 1, Len(s) - 1))
            ELSE s

\* what input() may give: a line, or KeyboardInterrupt / EOFError
Responses ==
    {[eof |-> FALSE, text |-> <<"y","e","s">>], [eof |-> FALSE, text |-> <<"Y"," ">>],
     [eof |-> FALSE, text |-> <<"n","o">>], [eof |-> FALSE, text |-> <<>>],
     [eof |-> TRUE, text |-> <<>>]}

\* response.strip().lower() in ['yes', 'y'], an exception counting as no
accepts(r) == ~r.eof /\ lower(strip(r.text)) \in {<<"y","e","s">>, <<"y">>}

\* a prompt as it is issued
Prompt(kind) == [kind |-> kind, idx |-> idx, answered |-> FALSE, accepted |-> FALSE,
                 ops_before |-> Len(OpLog)]

Answer(accepted) ==
    [prompts EXCEPT ![Len(prompts)] = [@ EXCEPT !.answered = TRUE, !.accepted = accepted]]

\* a summary that never finds a change
no_changes == FALSE

\* has_changes of sync_to_s3.py main()
has_changes ==
    \E i \in 1..Len(all_preview_info) :
        \/ all_preview_info[i].new_files # <<>>
        \/ all_preview_info[i].changed_files # <<>>
        \/ all_preview_info[i].orphaned_files # <<>>
        \/ all_preview_info[i].folders_to_delete # <<>>
        \/ all_preview_info[i].folders_to_add # <<>>

\* after the preview pass: the summary; sync_to_s3.py returns True when there
\* is nothing to do, otherwise the one confirmation of the batch is asked
Summarise ==
    /\ pc = "summary"
    /\ IF script = "to" /\ ~has_changes
       THEN /\ pc' = "done"
            /\ result' = "True"
            /\ UNCHANGED prompts
       ELSE /\ pc' = "confirm"
            /\ prompts' = Append(prompts, Prompt("batch"))
            /\ UNCHANGED result
    /\ UNCHANGED <<script, args, paths_to_sync, fs, store, fs0, store0, idx,
                   all_preview_info, runs, totals, pending, faults_left, rn, poll>>

\* the answer to "Proceed with syncing all N path(s)?"
ConfirmAll ==
    /\ pc = "confirm"
    /\ \E r \in Responses :
         /\ prompts' = Answer(accepts(r))
         /\ IF accepts(r)
            THEN /\ pc' = "sync"
                 /\ idx' = 1
                 /\ UNCHANGED result
            ELSE /\ pc' = "done"
                 /\ result' = "False"
                 /\ UNCHANGED idx
    /\ UNCHANGED <<script, args, paths_to_sync, fs, store, fs0, store0,
                   all_preview_info, runs, totals, pending, faults_left, rn, poll>>

\* sync_to_s3 returned x for the path
SyncedTo(s, x) ==
    /\ Recorded("exec", args.dry_run, s, x)
    /\ totals' = add_tally(totals, x.tally)

\* one executing call of sync_to_s3.py: the listing fails, or sync_to_s3 runs
\* with some of its calls failing
SyncingTo(w, s) ==
    \/ /\ ListingFails("exec", args.dry_run, s.pi)
       /\ totals' = add_tally(totals, listing_failed_tally)
    \/ \E fails \in FailSets(calls_to(s.c), args.dry_run) :
          /\ SyncedTo(s, sync_to_s3_run(w, s.c, args.dry_run, fails))
          /\ faults_left' = faults_left - Cardinality(fails)

\* sync_to_s3.py: one path of the second pass, or of a --dry-run / --yes run
SyncPathTo ==
    /\ pc = "sync" /\ script = "to" /\ idx <= Len(paths_to_sync)
    /\ SyncingTo([fs |-> fs, store |-> store],
                 sync_single_path_to([fs |-> fs, store |-> store], paths_to_sync[idx],
                                     args.force, args.prefix))
    /\ NextPath("finish")
    /\ UNCHANGED <<script, args, paths_to_sync, fs0, store0, all_preview_info, prompts,
                   pending, result, rn, poll>>

\* sync_from_s3 after its part A: it stops at the deletion prompt, or goes on
\* to the end when there is nothing to ask
after_transfers(a, dry_run) ==
    IF deletion_prompt_needed(a, dry_run) THEN a
    ELSE sync_from_s3_B(a, TRUE, dry_run, {})

\* part A returned a and sync_from_s3 stands at x
SyncedFromAt(s, a, x) ==
    /\ Recorded("exec", args.dry_run, s, x)
    /\ IF deletion_prompt_needed(a, args.dry_run)
       THEN /\ pc' = "confirm_delete"
            /\ pending' = a
            /\ prompts' = Append(prompts, Prompt("delete"))
            /\ UNCHANGED <<idx, totals>>
       ELSE /\ totals' = add_tally(totals, x.tally)
            /\ NextPath("finish")
            /\ UNCHANGED <<pending, prompts>>

SyncedFrom(s, a) == SyncedFromAt(s, a, after_transfers(a, args.dry_run))

\* one executing call of sync_from_s3.py, up to the deletion prompt
SyncingFrom(w, s) ==
    \/ /\ ListingFails("exec", args.dry_run, s.pi)
       /\ totals' = add_tally(totals, listing_failed_tally)
       /\ NextPath("finish")
       /\ UNCHANGED <<pending, prompts>>
    \/ \E fails \in FailSets(calls_from(s.c), args.dry_run) :
          /\ SyncedFrom(s, sync_from_s3_A(w, s.c, args.dry_run, fails))
          /\ faults_left' = faults_left - Cardinality(fails)

\* sync_from_s3.py: one path, up to the deletion prompt when there is one
SyncPathFrom ==
    /\ pc = "sync" /\ script = "from" /\ idx <= Len(paths_to_sync)
    /\ SyncingFrom([fs |-> fs, store |-> store],
                   sync_single_path_from([fs |-> fs, store |-> store], paths_to_sync[idx],
                                         args.force, args.prefix))
    /\ UNCHANGED <<script, args, paths_to_sync, fs0, store0, all_preview_info, result, rn, poll>>

\* the answer to "Proceed with deleting these local files?", then the deletes
ConfirmDelete ==
    /\ pc = "confirm_delete"
    /\ \E r \in Responses :
         LET calls == [i \in 1..Len(pending.orphaned_local_files) |->
                          pending.orphaned_local_files[i].call]
         IN \E fails \in FailSets(IF accepts(r) THEN calls ELSE <<>>, FALSE) :
              LET b == sync_from_s3_B([pending EXCEPT !.w = [fs |-> fs, store |-> store]],
                                      accepts(r), FALSE, fails)
                  last == runs[Len(runs)]
              IN /\ prompts' = Answer(accepts(r))
                 /\ fs' = b.w.fs
                 /\ store' = b.w.store
                 /\ runs' = [runs EXCEPT ![Len(runs)] =
                               [last EXCEPT !.log = b.log, !.orphaned = b.orphaned,
                                            !.calls = b.calls, !.tally = b.tally]]
                 /\ totals' = add_tally(totals, b.tally)
                 /\ faults_left' = faults_left - Cardinality(fails)
    /\ pending' = NoPending
    /\ idx' = idx + 1
    /\ pc' = IF idx = Len(paths_to_sync) THEN "finish" ELSE "sync"
    /\ UNCHANGED <<script, args, paths_to_sync, fs0, store0, all_preview_info, result, rn, poll>>

\* the final summary: main() returns total_failed == 0
Finish ==
    /\ pc = "finish"
    /\ pc' = "done"
    /\ result' = IF totals.failed = 0 THEN "True" ELSE "False"
    /\ UNCHANGED <<script, args, paths_to_sync, fs, store, fs0, store0, idx,
                   all_preview_info, prompts, runs, totals, pending, faults_left, rn, poll>>

Next ==
    \/ PreviewPathTo
    \/ PreviewPathFrom
    \/ Summarise
    \/ ConfirmAll
    \/ SyncPathTo
    \/ SyncPathFrom
    \/ ConfirmDelete
    \/ Finish

Spec == Init /\ [][Next]_vars


(***************************************************************************)
(* detect_renames on its own: both versions applied to the same local map  *)
(* and listing of one directory                                            *)
(***************************************************************************)
MaxRenameFiles == 2

RenameNames ==
    { <<"l","o","g","o",".","p","n","g">>,
      <<"l","o","g","o","1",".","p","n","g">>,
      <<"l","o","g","o","1","2",".","p","n","g">>,
      <<"l","o","g","o","-","o","l","d",".","p","n","g">>,
      <<"a",".","p","n","g">> }

\* the prefix of the directory the harness syncs
RenamePrefix == S3_PREFIX \o CSS_MARKER

\* local maps: any insertion order (os.walk promises none)
RenameLocals ==
    UNION {{[i \in 1..Len(names) |->
               [rel |-> names[i], hash |-> hs[i], path |-> join(CSS, names[i])]] :
              hs \in [1..Len(names) -> Hashes]} :
           names \in UNION {Perms(S) : S \in {T \in SUBSET RenameNames :
                                                Cardinality(T) <= MaxRenameFiles}}}

\* listings: key order
RenameListings ==
    UNION {{LET ks == SortKeys({RenamePrefix \o n : n \in S})
            IN [i \in 1..Len(ks) |->
                  [Key |-> ks[i], ETag |-> ETagOf(h[after(ks[i], RenamePrefix)]), Size |-> 1]] :
              h \in [S -> Hashes]} :
           S \in {T \in SUBSET RenameNames : Cardinality(T) <= MaxRenameFiles}}

rename_path_info(local_files, s3_objects) ==
    [project_path |-> SLASH_CSS, s3_prefix |-> RenamePrefix, local_path |-> CSS,
     is_file |-> FALSE, local_files |-> local_files,
     sync_scope_prefix |-> RenamePrefix, s3_objects |-> s3_objects]

InitRename ==
    /\ \E l \in RenameLocals, o \in RenameListings :
         rn = [rn0 EXCEPT !.local_files = l, !.s3_objects = o]
    /\ script = "from"
    /\ args = [dry_run |-> TRUE, yes |-> FALSE, force |-> FALSE, prefix |-> NoOverride]
    /\ paths_to_sync = <<SLASH_CSS>>
    /\ fs = MakeFs(<<>>, FALSE)
    /\ store = MakeStore(<<>>, {})
    /\ fs0 = fs
    /\ store0 = store
    /\ pc = "rename"
    /\ idx = 1
    /\ all_preview_info = <<>>
    /\ prompts = <<>>
    /\ runs = <<>>
    /\ totals = tally0
    /\ pending = NoPending
    /\ result = "running"
    /\ faults_left = 0
    /\ poll = NoPoll

\* both detect_renames, called as sync_from_s3 calls its own, and both previews
DetectRenames ==
    /\ pc = "rename" /\ ~rn.done
    /\ LET matched == already_matched(rn.local_files, rn.s3_objects, RenamePrefix)
           pi == rename_path_info(rn.local_files, rn.s3_objects)
       IN rn' = [rn EXCEPT
                   !.from = detect_renames_from(rn.local_files, rn.s3_objects,
                                                RenamePrefix, matched) \o <<>>,
                   !.to = detect_renames_to(rn.local_files, rn.s3_objects,
                                            RenamePrefix, matched) \o <<>>,
                   !.plan = [from |-> plan_from(pi), to |-> plan_to(pi, FALSE)],
                   !.done = TRUE]
    /\ UNCHANGED <<script, args, paths_to_sync, fs, store, fs0, store0, pc, idx,
                   all_preview_info, prompts, runs, totals, pending, result, faults_left, poll>>

NextRename == DetectRenames

SpecRename == InitRename /\ [][NextRename]_vars

(***************************************************************************)
(* Runs of main() on two paths: the directories /css and /img, or the      *)
(* files a.png and css/a.png; with and without a --prefix override         *)
(***************************************************************************)
SLASH_IMG == <<"/","i","m","g">>
IMG == <<"i","m","g">>
IMG_B == <<"i","m","g","/","b",".","p","n","g">>
B_PNG == <<"b",".","p","n","g">>
\* --prefix x
PREFIX_X == <<"x">>

\* the keys of the bucket: under the default prefix, or where the override puts them
PrefixKeys ==
    {S3_PREFIX \o A_PNG, S3_PREFIX \o CSS_A, S3_PREFIX \o IMG_B,
     <<"x","/">> \o A_PNG, <<"x","/">> \o B_PNG}

\* css/a.png differs from a.png
ProjectsTwoPaths ==
    {[fs |-> [files |-> [p \in c[1] \cup {INDEX_HTML} |-> IF p = CSS_A THEN "h2" ELSE "h1"],
              dirs |-> {dirname(p) : p \in c[1]} \ {<<>>}],
      store |-> [k \in c[2] |-> [ETag |-> ETagOf(c[3]), Size |-> 1]]] :
        c \in (SUBSET {A_PNG, CSS_A, IMG_B}) \X (SUBSET PrefixKeys) \X Hashes}

TwoPaths ==
    {<<SLASH_CSS, SLASH_IMG>>, <<SLASH_IMG, SLASH_CSS>>, <<A_PNG, CSS_A>>, <<CSS_A, A_PNG>>}

InitTwoPaths ==
    /\ \E c \in ProjectsTwoPaths : fs = c.fs /\ store = c.store
    /\ script \in {"to", "from"}
    /\ args \in [dry_run : BOOLEAN, yes : BOOLEAN, force : {FALSE},
                 prefix : {NoOverride, PREFIX_X}]
    /\ paths_to_sync \in TwoPaths
    /\ fs0 = fs
    /\ store0 = store
    /\ pc = IF ~args.dry_run /\ ~args.yes THEN "preview" ELSE "sync"
    /\ idx = 1
    /\ all_preview_info = <<>>
    /\ prompts = <<>>
    /\ runs = <<>>
    /\ totals = tally0
    /\ pending = NoPending
    /\ result = "running"
    /\ faults_left = 0
    /\ poll = NoPoll
    /\ rn = rn0

SpecTwoPaths == InitTwoPaths /\ [][Next]_vars

(***************************************************************************)
(* The path decisions on their own: parse_project_path followed by the     *)
(* head of sync_single_path, for one path given on the command line        *)
(***************************************************************************)
SUB == <<"s","u","b">>
FILE_TXT == <<"f","i","l","e",".","t","x","t">>
SUB_FILE_TXT == <<"s","u","b","/","f","i","l","e",".","t","x","t">>
SLASH_SUB_FILE_TXT == <<"/","s","u","b","/","f","i","l","e",".","t","x","t">>
SUB_SLASH == <<"s","u","b","/">>
V1_2 == <<"v","1",".","2">>
V1_2_SUB == <<"v","1",".","2","/","s","u","b">>

\* the paths given: some exist in some projects, the others in none
PathInputs ==
    {A_PNG, SLASH_CSS, CSS_A, CSS_LOGO, SUB, SUB_SLASH, FILE_TXT, SUB_FILE_TXT,
     SLASH_SUB_FILE_TXT, V1_2, V1_2_SUB}

pd0 == [project_path |-> <<>>, local_path |-> <<>>, local_path_exists |-> FALSE,
        likely_file |-> FALSE, s3_prefix |-> <<>>, is_file |-> FALSE,
        sync_scope_prefix |-> <<>>, listed |-> <<>>, done |-> FALSE]

InitPath ==
    /\ \E c \in Projects : fs = c.fs /\ store = c.store
    /\ \E p \in PathInputs :
         /\ paths_to_sync = <<p>>
         /\ rn = [pd0 EXCEPT !.project_path = p]
    /\ script = "to"
    /\ args = [dry_run |-> TRUE, yes |-> FALSE, force |-> FALSE, prefix |-> NoOverride]
    /\ fs0 = fs
    /\ store0 = store
    /\ pc = "path"
    /\ idx = 1
    /\ all_preview_info = <<>>
    /\ prompts = <<>>
    /\ runs = <<>>
    /\ totals = tally0
    /\ pending = NoPending
    /\ result = "running"
    /\ faults_left = 0
    /\ poll = NoPoll

\* main's call of parse_project_path and sync_single_path up to the listing
DecidePath ==
    /\ pc = "path" /\ ~rn.done
    /\ LET pp == parse_project_path(fs, rn.project_path, NoOverride)
           is_file == is_file_of(fs, rn.project_path, pp.local_path)
           filename == filename_of(fs, rn.project_path, pp.local_path)
           scope == sync_scope_prefix_of(is_file, pp.s3_prefix, filename)
       IN rn' = [rn EXCEPT
                   !.local_path = pp.local_path,
                   !.local_path_exists = exists(fs, pp.local_path),
                   !.likely_file = is_likely_file(lstrip(rn.project_path, "/")),
                   !.s3_prefix = pp.s3_prefix,
                   !.is_file = is_file,
                   !.sync_scope_prefix = scope,
                   !.listed = remote_objects(store, is_file, pp.s3_prefix, filename),
                   !.done = TRUE]
    /\ UNCHANGED <<script, args, paths_to_sync, fs, store, fs0, store0, pc, idx,
                   all_preview_info, prompts, runs, totals, pending, result, faults_left, poll>>

NextDecide == DecidePath

SpecPath == InitPath /\ [][NextDecide]_vars

(***************************************************************************)
(* Runs of main() on /css in projects and buckets that hold what the       *)
(* upload scan leaves out: a skipped name, a skipped extension, a file in  *)
(* an 'archive' directory, a file that cannot be read; the bucket may hold *)
(* folder markers                                                          *)
(***************************************************************************)
CSS_README == <<"c","s","s","/","R","E","A","D","M","E",".","m","d">>
CSS_A_PSD == <<"c","s","s","/","a",".","p","s","d">>
CSS_ARCHIVE == <<"c","s","s","/","a","r","c","h","i","v","e">>
CSS_ARCHIVE_A == <<"c","s","s","/","a","r","c","h","i","v","e","/","a",".","p","n","g">>

CSS_ARCHIVE_MARKER == <<"c","s","s","/","a","r","c","h","i","v","e","/">>

ExcludedSlots == {CSS_A, CSS_README, CSS_A_PSD, CSS_ARCHIVE_A}
MarkerExtras == {CSS_MARKER, CSS_ARCHIVE_MARKER}

\* a project whose css directory holds the files of f
MakeFsOf(f) ==
    [files |-> [p \in DOMAIN f \cup {INDEX_HTML} |->
                  IF p = INDEX_HTML THEN "h1" ELSE f[p]],
     dirs |-> {CSS} \cup UNION {ancestors(p) : p \in DOMAIN f}]

\* local files: a file whose hash is NoHash is one calculate_local_etag
\* cannot read (it returns None)
LocalMaps(S) == UNION {[T -> Hashes \cup {NoHash}] : T \in SUBSET S}

ProjectsExcluded ==
    {[fs |-> MakeFsOf(c[1]), store |-> MakeStore(c[2], c[3])] :
        c \in {d \in LocalMaps(ExcludedSlots) \X Maps(ExcludedSlots) \X (SUBSET MarkerExtras) :
                 /\ Cardinality(DOMAIN d[1]) + Cardinality(DOMAIN d[2])
                      + Cardinality(d[3]) <= MaxFiles
                 /\ \A p \in DOMAIN d[1] : d[1][p] = NoHash => p = CSS_A}}

InitExcluded ==
    /\ \E c \in ProjectsExcluded : fs = c.fs /\ store = c.store
    /\ script \in {"to", "from"}
    /\ args \in [dry_run : BOOLEAN, yes : BOOLEAN, force : BOOLEAN, prefix : {NoOverride}]
    /\ paths_to_sync = <<SLASH_CSS>>
    /\ fs0 = fs
    /\ store0 = store
    /\ pc = IF ~args.dry_run /\ ~args.yes THEN "preview" ELSE "sync"
    /\ idx = 1
    /\ all_preview_info = <<>>
    /\ prompts = <<>>
    /\ runs = <<>>
    /\ totals = tally0
    /\ pending = NoPending
    /\ result = "running"
    /\ faults_left = 1
    /\ poll = NoPoll
    /\ rn = rn0

SpecExcluded == InitExcluded /\ [][Next]_vars


(***************************************************************************)
(* poll_invalidation_status, the same text in invalidate_cloudfront.py and *)
(* in check_invalidation.py: one invalidation is watched until it is over  *)
(***************************************************************************)

DEFAULT_INTERVAL == 10

\* check_count is told apart up to here
MaxChecks == 5

\* --interval takes any int
Intervals == {-1, 0, DEFAULT_INTERVAL}

\* the Status CloudFront gives an invalidation
RemoteStatuses == {"InProgress", "Completed"}

\* a response whose Invalidation has no Status
Missing == "(missing)"

\* nothing fetched yet
NotFetched == [kind |-> "not fetched", Status |-> Missing]

\* get_invalidation_by_id: None after an error, otherwise
\* response.get('Invalidation', {}), with or without a Status
get_invalidation_by_id(remote) ==
    {[kind |-> "None", Status |-> Missing],
     [kind |-> "dict", Status |-> Missing],
     [kind |-> "dict", Status |-> remote]}

\* "if not invalidation" is not taken
truthy(invalidation) == invalidation.kind = "dict"

\* invalidation.get('Status', 'Unknown')
status_of(invalidation) ==
    IF invalidation.Status = Missing THEN "Unknown" ELSE invalidation.Status

\* a loop that returns True after its first fetch, whatever the status
returns_whatever_status(status) == "True"

\* what the loop does with a fetched status: return True, or go on ("none")
return_for_status(status) ==
    IF status = "Completed" THEN "True"
    ELSE IF status # "InProgress" THEN "True"
    ELSE "none"

\* time.sleep(interval) raises ValueError on a negative length
sleep_raises(interval) == interval < 0

\* the locals of poll_invalidation_status as the loop is entered
poll0 ==
    [pc |-> "fetch", interval |-> DEFAULT_INTERVAL, check_count |-> 0,
     status |-> "Unknown", invalidation |-> NotFetched, returned |-> "none",
     interrupted |-> FALSE, remote |-> "InProgress"]

InitPoll ==
    /\ \E i \in Intervals, r \in RemoteStatuses :
         poll = [poll0 EXCEPT !.interval = i, !.remote = r]
    /\ script = "to"
    /\ args = [dry_run |-> TRUE, yes |-> FALSE, force |-> FALSE, prefix |-> NoOverride]
    /\ paths_to_sync = <<>>
    /\ fs = MakeFs(<<>>, FALSE)
    /\ store = MakeStore(<<>>, {})
    /\ fs0 = fs
    /\ store0 = store
    /\ pc = "poll"
    /\ idx = 1
    /\ all_preview_info = <<>>
    /\ prompts = <<>>
    /\ runs = <<>>
    /\ totals = tally0
    /\ pending = NoPending
    /\ result = "running"
    /\ faults_left = 0
    /\ rn = rn0

\* the function returns value
PollReturns(p, value) == [p EXCEPT !.returned = value, !.pc = "done"]

\* one turn of the loop, up to its return or its time.sleep
FetchStatus ==
    /\ poll.pc = "fetch"
    /\ \E invalidation \in get_invalidation_by_id(poll.remote) :
         LET p == [poll EXCEPT
                     !.check_count = IF @ < MaxChecks THEN @ + 1 ELSE @,
                     !.invalidation = invalidation]
             status == status_of(invalidation)
         IN poll' = IF ~truthy(invalidation) THEN PollReturns(p, "False")
                    ELSE IF return_for_status(status) # "none"
                    THEN PollReturns([p EXCEPT !.status = status], return_for_status(status))
                    ELSE [p EXCEPT !.status = status, !.pc = "sleep"]
    /\ UNCHANGED sync_vars

\* time.sleep(interval): the next check is due, or "except Exception"
\* returns False
Sleep ==
    /\ poll.pc = "sleep"
    /\ poll' = IF sleep_raises(poll.interval) THEN PollReturns(poll, "False")
               ELSE [poll EXCEPT !.pc = "fetch"]
    /\ UNCHANGED sync_vars

\* Ctrl+C anywhere in the loop: "except KeyboardInterrupt" returns True
KeyboardInterrupt ==
    /\ poll.pc \in {"fetch", "sleep"}
    /\ poll' = PollReturns([poll EXCEPT !.interrupted = TRUE], "True")
    /\ UNCHANGED sync_vars

\* CloudFront finishes the invalidation
Complete ==
    /\ poll.pc # "none" /\ poll.remote = "InProgress"
    /\ poll' = [poll EXCEPT !.remote = "Completed"]
    /\ UNCHANGED sync_vars

NextPoll ==
    \/ FetchStatus
    \/ Sleep
    \/ KeyboardInterrupt
    \/ Complete

SpecPoll == InitPoll /\ [][NextPoll]_vars

\* the loop runs on: a fetch returns and a sleep ends
SpecPollFair == SpecPoll /\ WF_vars(FetchStatus) /\ WF_vars(Sleep)


(***************************************************************************)
(* Properties of rename detection (checked under SpecRename)               *)
(***************************************************************************)
\* no two pairs of a rename map share a source, and no two share a target
OneToOne(renames) ==
    \A i, j \in 1..Len(renames) :
        i # j => /\ renames[i].local_path # renames[j].local_path
                 /\ renames[i].s3_key # renames[j].s3_key

\* the entries of the harness listing, and the fingerprints on both sides
rn_entries == s3_entries(rn.s3_objects, RenamePrefix)
rn_local_hash(rel) == <<entryOf(rn.local_files, rel).hash>>
rn_remote_hash(key) ==
    (CHOOSE e \in Range(rn_entries) : e.key = key).etag

\* a similarity of at least 0.7, with the ratio computed afresh
AtLeastThreshold(name1, name2) == ratio(name1, name2).num * 10 >= 7 * ratio(name1, name2).den

\* the candidates each first pass keeps
rn_candidates_from ==
    potential_renames_from(rn.local_files, rn.s3_objects, RenamePrefix,
                           already_matched(rn.local_files, rn.s3_objects, RenamePrefix))
rn_candidates_to ==
    potential_renames_to(rn.local_files, rn.s3_objects, RenamePrefix,
                         already_matched(rn.local_files, rn.s3_objects, RenamePrefix))

\* C5: rename detection is 1:1 in both versions: no source path is in two
\* rename pairs and no target key is in two rename pairs
C5_RenameOneToOne == rn.done => OneToOne(rn.from) /\ OneToOne(rn.to)

\* every pair of a rename map joins equal fingerprints and similar names
PairsEligible(renames) ==
    \A i \in 1..Len(renames) :
        /\ rn_local_hash(renames[i].local_path) = rn_remote_hash(renames[i].s3_key)
        /\ AtLeastThreshold(basename(renames[i].local_path),
                            basename(renames[i].s3_rel_path))

\* a local-only file and a remote-only file with one fingerprint and names
\* less similar than 0.7
LowPairs ==
    {p \in Range(rn.local_files) \X Range(rn_entries) :
        /\ <<p[1].hash>> = p[2].etag
        /\ p[1].rel \notin s3_rels(rn_entries)
        /\ p[2].rel \notin rels(rn.local_files)
        /\ ~AtLeastThreshold(basename(p[1].rel), p[2].filename)}

Paired(renames, l, e) ==
    \E i \in 1..Len(renames) : renames[i].local_path = l.rel /\ renames[i].s3_key = e.key

InSomePair(renames, l, e) ==
    \E i \in 1..Len(renames) : renames[i].local_path = l.rel \/ renames[i].s3_key = e.key

\* C6: every rename pair joins a source and a target with equal fingerprints
\* and a base-name similarity of at least 0.7; a same-fingerprint pair below
\* 0.7 is never a rename pair, and, neither file being renamed otherwise, the
\* previews list one of them as orphaned and the other as new
C6_RenamePairsEligible ==
    rn.done =>
        /\ PairsEligible(rn.from)
        /\ PairsEligible(rn.to)
        /\ \A p \in LowPairs :
              /\ ~Paired(rn.from, p[1], p[2])
              /\ ~Paired(rn.to, p[1], p[2])
              /\ ~InSomePair(rn.from, p[1], p[2]) =>
                    /\ p[1].rel \in Range(rn.plan.from.orphaned_files)
                    /\ p[2].rel \in Range(rn.plan.from.new_files)
              /\ p[1].rel \in Range(rn.plan.to.new_files)
              /\ p[2].rel \in Range(rn.plan.to.orphaned_files)

\* a rename was detected in both versions while another same-fingerprint pair
\* stayed below the threshold and was listed as orphan plus new
C6_Witness ==
    /\ rn.done
    /\ rn.from # <<>>
    /\ rn.to # <<>>
    /\ \E p \in LowPairs :
          /\ ~InSomePair(rn.from, p[1], p[2])
          /\ p[1].rel \in Range(rn.plan.from.orphaned_files)
          /\ p[2].rel \in Range(rn.plan.from.new_files)

\* a candidate of strictly higher similarity that shares an end with p
Better(q, p) ==
    /\ SimGT(q.similarity, p.similarity)
    /\ q.local_path = p.local_path \/ q.s3_key = p.s3_key

\* no selected pair has a better candidate at its source or at its target
NoBetter(renames, cands) ==
    \A i \in 1..Len(renames), k \in 1..Len(cands) : ~Better(cands[k], renames[i])

\* every better candidate lost its other end to a selected pair that is at
\* least as similar as the candidate
BetterIsTaken(renames, cands) ==
    \A i \in 1..Len(renames), k \in 1..Len(cands) :
        Better(cands[k], renames[i]) =>
            \E j \in 1..Len(renames) :
                /\ SimGE(renames[j].similarity, cands[k].similarity)
                /\ IF cands[k].local_path = renames[i].local_path
                   THEN renames[j].s3_key = cands[k].s3_key
                   ELSE renames[j].local_path = cands[k].local_path

\* C7 as stated: no pair is selected while a candidate of strictly higher
\* similarity exists for the same source or for the same target
C7_NoBetterPair ==
    rn.done => NoBetter(rn.from, rn_candidates_from) /\ NoBetter(rn.to, rn_candidates_to)

\* C7: whenever a candidate of strictly higher similarity shares the source or
\* the target of a selected pair, the other end of that candidate is in a
\* selected pair at least as similar as the candidate (greedy by descending
\* similarity)
C7_GreedyBySimilarity ==
    rn.done => /\ BetterIsTaken(rn.from, rn_candidates_from)
               /\ BetterIsTaken(rn.to, rn_candidates_to)

\* the upload version selected a pair although a better candidate shares one
\* of its ends
C7_Witness ==
    /\ rn.done
    /\ \E i \in 1..Len(rn.to), k \in 1..Len(rn_candidates_to) :
          Better(rn_candidates_to[k], rn.to[i])
    /\ \E i \in 1..Len(rn.from), k \in 1..Len(rn_candidates_from) :
          Better(rn_candidates_from[k], rn.from[i])

(***************************************************************************)
(* Properties of a run (checked under Spec)                                *)
(***************************************************************************)
RunIdx == 1..Len(runs)

\* the path a run was given, as a path below the project root
scope_root(r) == project_path_clean(r.project_path)

\* p, relative to the project root, lies in the scope of the run's path
InScope(r, p) ==
    IF r.is_file THEN p = scope_root(r)
    ELSE startswith(p, scope_root(r) \o <<"/">>)

KeyInScope(r, key) == startswith(key, S3_PREFIX) /\ InScope(r, after(key, S3_PREFIX))

\* the targets of the deleting calls a run has made
deleted_by(r, op) ==
    {r.log[k].target : k \in {j \in 1..Len(r.log) : r.log[j].op = op}}

\* the same, successful calls only
really_deleted_by(r, op) ==
    {r.log[k].target : k \in {j \in 1..Len(r.log) : r.log[j].op = op /\ r.log[j].ok}}

\* the previewed orphans of a run as keys (upload) or local paths (download)
previewed_orphan_keys(r) ==
    {r.s3_prefix \o r.plan.orphaned_files[k] : k \in 1..Len(r.plan.orphaned_files)}
previewed_orphan_paths(r) ==
    {entryOf(r.local_files, r.plan.orphaned_files[k]).path :
        k \in 1..Len(r.plan.orphaned_files)}

DeletionConfirmed(r) ==
    \E p \in 1..Len(prompts) :
        /\ prompts[p].kind = "delete"
        /\ prompts[p].idx = r.idx
        /\ prompts[p].accepted

\* C2 as stated: with --yes, in both directions, no orphaned file is deleted
\* unless a deletion prompt was issued in that run and answered yes
C2_YesDeletionsConfirmed ==
    (args.yes /\ ~args.dry_run) =>
        \A i \in RunIdx :
            (deleted_by(runs[i], IF script = "to" THEN "delete_object" ELSE "delete_local")
                \cap Range(runs[i].orphaned)) # {} => DeletionConfirmed(runs[i])

\* C3: a dry run issues no upload, download or delete and leaves the local
\* tree and the bucket as they were
C3_DryRunNoMutation ==
    args.dry_run => /\ OpLog = <<>>
                    /\ fs = fs0
                    /\ store = store0

\* a dry run of a download has finished with a rename (a local delete and a
\* download) and an orphan to delete in its plan
C3_Witness ==
    /\ args.dry_run
    /\ pc = "done"
    /\ \E i \in RunIdx : runs[i].orphaned # <<>> /\ runs[i].renames # <<>>

default_mode == ~args.dry_run /\ ~args.yes

\* the confirmation of the batch has not been answered with yes or y
NotAccepted == prompts = <<>> \/ ~prompts[1].accepted

\* C4: in default mode, as long as the confirmation has not been answered with
\* yes or y (any other answer, an interrupt and end of input included), no
\* upload, download or delete has been made for any path, and after such an
\* answer the run is over
C4_DeclineMeansNoOperation ==
    (default_mode /\ NotAccepted) =>
        /\ OpLog = <<>>
        /\ fs = fs0
        /\ store = store0
        /\ \A i \in RunIdx : runs[i].pass = "preview"
        /\ (prompts # <<>> /\ prompts[1].answered) => pc = "done" /\ result = "False"

\* the confirmation was declined although the previews had found transfers
\* and deletions to make
C4_Witness ==
    /\ default_mode
    /\ prompts # <<>> /\ prompts[1].answered /\ ~prompts[1].accepted
    /\ pc = "done"
    /\ \E i \in RunIdx : runs[i].plan.orphaned_files # <<>>
    /\ \E i \in RunIdx : runs[i].plan.new_files # <<>>

\* the files of a run that are the same on both sides: same relative path,
\* same fingerprint
identical_files(r) ==
    LET es == s3_entries(r.s3_objects, r.s3_prefix)
    IN {l.rel : l \in {x \in Range(r.local_files) :
                          /\ x.rel \in s3_rels(es)
                          /\ <<x.hash>> = s3_entry(es, x.rel).etag}}

\* the paths the renames of a plan or of an executor touch
rename_ends(renames) ==
    {renames[k].old : k \in 1..Len(renames)} \cup {renames[k].new : k \in 1..Len(renames)}

\* C8 as stated: a file identical on both sides is never listed as new,
\* changed, orphaned or renamed in the plan of either direction
C8_IdenticalNeverListed ==
    \A i \in RunIdx : \A f \in identical_files(runs[i]) :
        /\ f \notin Range(runs[i].plan.new_files)
        /\ f \notin Range(runs[i].plan.changed_files)
        /\ f \notin Range(runs[i].plan.orphaned_files)
        /\ f \notin rename_ends(runs[i].plan.renames)

\* C8: a file identical on both sides is never listed as new, orphaned or
\* renamed, by the preview or by the executor, in either direction; the preview
\* lists it as changed exactly when it is the upload preview and force is set
C8_IdenticalListedOnlyByForce ==
    \A i \in RunIdx : \A f \in identical_files(runs[i]) :
        /\ f \notin Range(runs[i].plan.new_files)
        /\ f \notin Range(runs[i].plan.orphaned_files)
        /\ f \notin rename_ends(runs[i].plan.renames)
        /\ f \notin runs[i].created
        /\ f \notin rename_ends(runs[i].renames)
        /\ runs[i].s3_prefix \o f \notin Range(runs[i].orphaned)
        /\ entryOf(runs[i].local_files, f).path \notin Range(runs[i].orphaned)
        /\ f \in Range(runs[i].plan.changed_files) <=> (script = "to" /\ args.force)

\* an upload preview under force lists an identical file as changed, beside an
\* orphan of the same plan
C8_Witness ==
    \E i \in RunIdx : \E f \in identical_files(runs[i]) :
        /\ script = "to"
        /\ args.force
        /\ f \in Range(runs[i].plan.changed_files)
        /\ runs[i].plan.orphaned_files # <<>>

\* the run has called upload_file or download_file for the file f of its path
transferred(r, f) ==
    \E k \in 1..Len(r.log) :
        \/ r.log[k].op = "upload" /\ r.log[k].target = r.s3_prefix \o f
        \/ r.log[k].op = "download" /\ r.log[k].src = r.s3_prefix \o f

PlanNotEmpty ==
    /\ pc # "preview"
    /\ \E k \in 1..Len(all_preview_info) :
          \/ all_preview_info[k].new_files # <<>>
          \/ all_preview_info[k].changed_files # <<>>
          \/ all_preview_info[k].renames # <<>>
          \/ all_preview_info[k].orphaned_files # <<>>
          \/ all_preview_info[k].folders_to_delete # <<>>
          \/ all_preview_info[k].folders_to_add # <<>>

multi_path_batch == default_mode /\ Len(paths_to_sync) > 1 /\ PlanNotEmpty

passes(pass) == {i \in RunIdx : runs[i].pass = pass}

\* every path was previewed and nothing was called before the confirmation of
\* the batch was asked; once it is accepted and the run is over every path was
\* executed
BatchOrder ==
    /\ {runs[i].idx : i \in passes("preview")} = 1..Len(paths_to_sync)
    /\ pc # "summary" =>
          /\ prompts # <<>>
          /\ prompts[1].kind = "batch"
          /\ prompts[1].ops_before = 0
    /\ \A p \in 2..Len(prompts) : prompts[p].kind # "batch"
    /\ (pc = "done" /\ prompts[1].accepted) =>
          {runs[i].idx : i \in passes("exec")} = 1..Len(paths_to_sync)

\* C10 as stated: in a multi-path run in default mode with a non-empty plan,
\* every path is previewed before anything is asked, exactly one prompt is
\* issued for the whole run, and all paths are executed without further prompt
C10_OnePromptOnly ==
    multi_path_batch => BatchOrder /\ Len(prompts) <= 1

\* C10: in a multi-path run in default mode with a non-empty plan, every path
\* is previewed before anything is asked, exactly one confirmation of the batch
\* is issued, and after it is accepted all paths are executed; the upload asks
\* nothing further, the download asks once more, before deleting, for each
\* path that has orphaned local files
C10_OneBatchConfirmation ==
    multi_path_batch =>
        /\ BatchOrder
        /\ script = "to" => Len(prompts) <= 1
        /\ \A p \in 2..Len(prompts) :
              /\ prompts[p].kind = "delete"
              /\ prompts[1].accepted
              /\ \A q \in 2..Len(prompts) : prompts[q].idx = prompts[p].idx => q = p
              /\ \E i \in passes("exec") :
                    /\ runs[i].idx = prompts[p].idx
                    /\ runs[i].plan.orphaned_files # <<>>

\* a download of two paths in default mode: one confirmation of the batch,
\* accepted, every path executed, and a deletion prompt on the way
C10_Witness ==
    /\ multi_path_batch
    /\ script = "from"
    /\ pc = "done"
    /\ prompts[1].accepted
    /\ Len(prompts) >= 2
    /\ Cardinality(passes("exec")) = Len(paths_to_sync)

\* the preview pass is over, every listing succeeded and no path's preview
\* lists anything
AggregatePlanEmpty ==
    /\ pc # "preview"
    /\ \A i \in RunIdx : runs[i].listed
    /\ \A k \in 1..Len(all_preview_info) :
          /\ all_preview_info[k].new_files = <<>>
          /\ all_preview_info[k].changed_files = <<>>
          /\ all_preview_info[k].renames = <<>>
          /\ all_preview_info[k].orphaned_files = <<>>
          /\ all_preview_info[k].folders_to_delete = <<>>
          /\ all_preview_info[k].folders_to_add = <<>>

\* C11 as stated: in default mode with an empty aggregated plan, in either
\* direction, no confirmation is asked, no upload, download or delete is made
\* and the run ends at once, returning True (nothing to do)
C11_EmptyPlanNoPrompt ==
    (default_mode /\ AggregatePlanEmpty) =>
        /\ prompts = <<>>
        /\ OpLog = <<>>
        /\ pc \in {"summary", "done"}
        /\ pc = "done" => result = "True"

\* the calls a log records, without their outcome
calls_of(log) ==
    [k \in 1..Len(log) |-> Op(log[k].op, log[k].target, log[k].src)]

\* the run is over, none of its calls failed and no deletion prompt of its path
\* was declined
RanThrough(j) ==
    /\ ~(pc = "confirm_delete" /\ j = Len(runs))
    /\ \A k \in 1..Len(runs[j].log) : runs[j].log[k].ok
    /\ \A p \in 1..Len(prompts) :
          (prompts[p].kind = "delete" /\ prompts[p].idx = runs[j].idx) => prompts[p].accepted

\* a dry run i and a real run j of the same path on the same local map and the
\* same listing
SameInputs(i, j) ==
    /\ runs[i].dry_run /\ ~runs[j].dry_run
    /\ runs[i].listed /\ runs[j].listed
    /\ runs[i].idx = runs[j].idx
    /\ runs[i].local_files = runs[j].local_files
    /\ runs[i].s3_objects = runs[j].s3_objects

IsTransfer(r, o) ==
    \E f \in r.created \cup r.changed :
        \/ o.op = "upload" /\ o.target = r.s3_prefix \o f
        \/ o.op = "download" /\ o.src = r.s3_prefix \o f

\* o is one half of a rename of run r: the delete of the old local file or the
\* download under the new name
IsRenameHalf(r, o) ==
    \E k \in 1..Len(r.renames) :
        \/ o.op = "delete_local" /\ o.target = entryOf(r.local_files, r.renames[k].old).path
        \/ o.op = "download" /\ o.src = r.s3_prefix \o r.renames[k].new

\* o deletes an orphan of run r, or a folder marker after the orphans
IsDeletion(r, o) ==
    /\ o.op \in {"delete_object", "delete_local"}
    /\ o.target \in Range(r.orphaned) \/ endswith(o.target, <<"/">>)

\* 1 = create/update, 2 = rename, 3 = deletion, 0 = none of them
phase(r, o) ==
    IF IsTransfer(r, o) /\ ~IsRenameHalf(r, o) /\ ~IsDeletion(r, o) THEN 1
    ELSE IF IsRenameHalf(r, o) /\ ~IsTransfer(r, o) /\ ~IsDeletion(r, o) THEN 2
    ELSE IF IsDeletion(r, o) /\ ~IsTransfer(r, o) /\ ~IsRenameHalf(r, o) THEN 3
    ELSE 0

\* the calls of run r come in the order creates/updates, renames, deletions,
\* and none of the creates/updates and renames is left out
InExecutionOrder(r) ==
    /\ \A a \in 1..Len(r.calls) : phase(r, r.calls[a]) # 0
    /\ \A a, b \in 1..Len(r.calls) :
          a < b => phase(r, r.calls[a]) <= phase(r, r.calls[b])
    /\ \A f \in r.created \cup r.changed :
          \E a \in 1..Len(r.calls) :
              /\ r.calls[a].op \in {"upload", "download"}
              /\ r.s3_prefix \o f \in {r.calls[a].target, r.calls[a].src}
    /\ \A k \in 1..Len(r.renames) :
          \E a \in 1..Len(r.calls) :
              /\ r.calls[a].op = "delete_local"
              /\ r.calls[a].target = entryOf(r.local_files, r.renames[k].old).path
    /\ ~r.dry_run => calls_of(r.log) = r.calls

\* C13: within the sync of one path the calls are issued in the order
\* creates/updates, then renames, then deletions: every create/update is
\* attempted before any rename half, and every create/update and every rename
\* before any orphan deletion, in both directions and whatever fails
C13_ExecutionOrder == \A i \in RunIdx : InExecutionOrder(runs[i])

\* a real download of a path failed to download under the new name after it
\* had deleted the old file of a rename, and still went on to delete an orphan
C13_Witness ==
    \E i \in RunIdx :
        /\ ~runs[i].dry_run
        /\ Len(runs[i].log) = 3
        /\ phase(runs[i], runs[i].calls[1]) = 2
        /\ phase(runs[i], runs[i].calls[2]) = 2
        /\ ~runs[i].log[2].ok
        /\ phase(runs[i], runs[i].calls[3]) = 3
        /\ runs[i].log[3].ok

\* the log entries of run r that transfer the file f, that delete the old file
\* of its k-th rename, that download under the new name of its k-th rename,
\* that delete the orphan t, and that delete a folder marker
TransferEntries(r, f) ==
    {j \in 1..Len(r.log) :
        \/ r.log[j].op = "upload" /\ r.log[j].target = r.s3_prefix \o f
        \/ r.log[j].op = "download" /\ r.log[j].src = r.s3_prefix \o f}
RenameDeletes(r, k) ==
    {j \in 1..Len(r.log) :
        /\ r.log[j].op = "delete_local"
        /\ r.log[j].target = entryOf(r.local_files, r.renames[k].old).path}
RenameGets(r, k) ==
    {j \in 1..Len(r.log) :
        r.log[j].op = "download" /\ r.log[j].src = r.s3_prefix \o r.renames[k].new}
OrphanDeletes(r, t) ==
    {j \in 1..Len(r.log) :
        r.log[j].op \in {"delete_object", "delete_local"} /\ r.log[j].target = t}
MarkerDeletes(r) ==
    {j \in 1..Len(r.log) :
        r.log[j].op = "delete_object" /\ endswith(r.log[j].target, <<"/">>)}

AllOk(r, J) == \A j \in J : r.log[j].ok

\* both halves of the k-th rename were made and succeeded
RenameOk(r, k) ==
    /\ RenameDeletes(r, k) # {} /\ AllOk(r, RenameDeletes(r, k))
    /\ RenameGets(r, k) # {} /\ AllOk(r, RenameGets(r, k))

\* a real call of sync_to_s3 / sync_from_s3 that has returned
Returned(i) ==
    /\ runs[i].listed
    /\ ~runs[i].dry_run
    /\ ~(pc = "confirm_delete" /\ i = Len(runs))

\* every item of run r was attempted once and nothing else was called
AttemptedOnce(r) ==
    /\ \A f \in r.created \cup r.changed : Cardinality(TransferEntries(r, f)) = 1
    /\ \A k \in 1..Len(r.renames) :
          /\ Cardinality(RenameDeletes(r, k)) = 1
          /\ Cardinality(RenameGets(r, k)) = IF AllOk(r, RenameDeletes(r, k)) THEN 1 ELSE 0
    /\ \A t \in Range(r.orphaned) : Cardinality(OrphanDeletes(r, t)) = 1
    /\ Len(r.log) = Cardinality(r.created \cup r.changed)
                    + Len(r.renames)
                    + Cardinality({k \in 1..Len(r.renames) : AllOk(r, RenameDeletes(r, k))})
                    + Len(r.orphaned)
                    + Cardinality(MarkerDeletes(r))

\* the tallies of run r count each item once: in failed when it failed, in the
\* success tally of its kind when it succeeded
TalliesAddUp(r) ==
    /\ r.tally.failed = Cardinality({j \in 1..Len(r.log) : ~r.log[j].ok})
    /\ r.tally.uploaded = Cardinality({f \in r.created : AllOk(r, TransferEntries(r, f))})
    /\ r.tally.updated = Cardinality({f \in r.changed : AllOk(r, TransferEntries(r, f))})
    /\ r.tally.renamed = Cardinality({k \in 1..Len(r.renames) : RenameOk(r, k)})
    /\ r.tally.deleted = Cardinality({t \in Range(r.orphaned) : AllOk(r, OrphanDeletes(r, t))})
    /\ AllOk(r, MarkerDeletes(r)) /\ MarkerDeletes(r) # {} =>
          r.tally.folders_deleted = Cardinality(MarkerDeletes(r))
    /\ r.created \cap r.changed = {}

FailedRenames(r) == {k \in 1..Len(r.renames) : ~RenameOk(r, k)}
OtherFailures(r) ==
    {j \in 1..Len(r.log) :
        /\ ~r.log[j].ok
        /\ \A k \in 1..Len(r.renames) : j \notin RenameDeletes(r, k) \cup RenameGets(r, k)}

\* C15: for each rename the download sync processes, renamed is incremented
\* exactly when both halves succeed (the delete of the old local file and the
\* download under the new name); when either half fails, failed is incremented
\* once for that rename and renamed is not, so that renamed plus the failed
\* renames is the number of renames processed
C15_RenameTally ==
    \A i \in RunIdx :
        (script = "from" /\ Returned(i)) =>
            /\ runs[i].tally.renamed = Len(runs[i].renames) - Cardinality(FailedRenames(runs[i]))
            /\ runs[i].tally.failed =
                  Cardinality(FailedRenames(runs[i])) + Cardinality(OtherFailures(runs[i]))
            /\ \A k \in FailedRenames(runs[i]) :
                  Cardinality({j \in RenameDeletes(runs[i], k) \cup RenameGets(runs[i], k) :
                                  ~runs[i].log[j].ok}) = 1

\* the old file of a rename was deleted and the download under the new name
\* failed: the rename is counted as failed, not as renamed, and neither file
\* is there
C15_Witness ==
    /\ script = "from"
    /\ runs # <<>>
    /\ Returned(Len(runs))
    /\ LET r == runs[Len(runs)]
       IN /\ Len(r.renames) = 1
          /\ AllOk(r, RenameDeletes(r, 1))
          /\ RenameGets(r, 1) # {} /\ ~AllOk(r, RenameGets(r, 1))
          /\ r.tally.renamed = 0
          /\ r.tally.failed = 1
          /\ ~isfile(fs, entryOf(r.local_files, r.renames[1].old).path)
          /\ ~isfile(fs, join(r.local_path, r.renames[1].new))

\* the paths that have a record of the given pass
paths_of(pass) == {runs[i].idx : i \in passes(pass)}

\* the second pass, or the one pass of a --dry-run / --yes run, is over
ExecPassOver ==
    /\ pc \in {"finish", "done"}
    /\ default_mode => (prompts # <<>> /\ prompts[1].accepted)

FileByRule(project_path) ==
    /\ contains(basename(lstrip(project_path, "/")), ".")
    /\ ~contains(lstrip(project_path, "/"), "/")

\* C17: for a path that does not exist locally, parse_project_path and
\* sync_single_path take the same file-or-directory decision: a file in both
\* exactly when the last segment has a dot and the relative path has no
\* separator, a directory in both otherwise; so a missing directory never has
\* the bare base prefix as its scope
C17_SameFileDecision ==
    (pc = "path" /\ rn.done /\ ~rn.local_path_exists) =>
        /\ rn.likely_file = rn.is_file
        /\ rn.is_file = FileByRule(rn.project_path)
        /\ ~rn.is_file => rn.sync_scope_prefix # S3_PREFIX

\* what scan_local_files of the upload leaves out: a path under an 'archive'
\* directory, a skipped file name, a skipped extension
excluded_from_scan(rel) ==
    \/ ARCHIVE \in dir_components(rel)
    \/ basename(rel) \in skip_files
    \/ lower(splitext1(basename(rel))) \in SKIP_EXTENSIONS

\* the previewed orphans, the executor's orphans and the objects a run asked
\* to delete, as keys
deletions_put_forward(r) ==
    Range(r.orphaned) \cup previewed_orphan_keys(r) \cup deleted_by(r, "delete_object")

\* C18: the upload never lists as an orphan, and never deletes, a remote object
\* under an 'archive' directory or with a file name or extension that the
\* local scan leaves out; such an object of the bucket is still there
C18_ExcludedNeverOrphaned ==
    script = "to" =>
        /\ \A i \in RunIdx : \A key \in deletions_put_forward(runs[i]) :
              ~excluded_from_scan(after(key, runs[i].s3_prefix))
        /\ \A key \in DOMAIN store0 :
              excluded_from_scan(after(key, S3_PREFIX \o CSS_MARKER)) => key \in DOMAIN store

\* the deletion prompt of run i was answered with something else than yes, or
\* its read ended
DeletionDeclined(i) ==
    /\ runs[i].pass = "exec"
    /\ \E k \in 1..Len(prompts) :
          /\ prompts[k].kind = "delete"
          /\ prompts[k].idx = runs[i].idx
          /\ prompts[k].answered /\ ~prompts[k].accepted

\* the calls of run r that went through: the downloads and the old files of
\* renames deleted
Downloaded(r) == {r.log[j].target : j \in {k \in 1..Len(r.log) : r.log[k].op = "download" /\ r.log[k].ok}}
RenamedAway(r) ==
    {r.log[j].target : j \in {k \in 1..Len(r.log) : r.log[k].op = "delete_local" /\ r.log[k].ok}}

\* C19: in the download sync, when the deletion prompt is declined or its read
\* ends, no orphaned local file is deleted: the orphans are still on disk
\* unchanged, no call but the transfers and the renames was made, deleted and
\* folders_deleted are 0, failed counts the failed transfers and renames only,
\* and what the transfers and renames did is kept and counted
C19_DeclinedDeletionSkipped ==
    \A i \in RunIdx :
        (script = "from" /\ DeletionDeclined(i)) =>
            /\ previewed_orphan_paths(runs[i]) # {}
            /\ \A p \in previewed_orphan_paths(runs[i]) :
                  p \in DOMAIN fs.files /\ p \in DOMAIN fs0.files /\ fs.files[p] = fs0.files[p]
            /\ runs[i].orphaned = <<>>
            /\ \A j \in 1..Len(runs[i].log) :
                  runs[i].log[j].op = "delete_local" =>
                      \E k \in 1..Len(runs[i].renames) : j \in RenameDeletes(runs[i], k)
            /\ runs[i].tally.deleted = 0
            /\ runs[i].tally.folders_deleted = 0
            /\ runs[i].tally.failed =
                  Cardinality(FailedRenames(runs[i])) + Cardinality(OtherFailures(runs[i]))
            /\ runs[i].tally.uploaded + runs[i].tally.updated
                  = Cardinality({f \in runs[i].created \cup runs[i].changed :
                                    AllOk(runs[i], TransferEntries(runs[i], f))})
            /\ runs[i].tally.renamed = Len(runs[i].renames) - Cardinality(FailedRenames(runs[i]))
            /\ Downloaded(runs[i]) \subseteq DOMAIN fs.files
            /\ RenamedAway(runs[i]) \cap DOMAIN fs.files = {}

\* a download run renamed one file and then had its deletion prompt declined:
\* the orphan is still on disk, the renamed file is under its new name
C19_Witness ==
    /\ script = "from"
    /\ pc = "done"
    /\ \E i \in RunIdx :
          /\ DeletionDeclined(i)
          /\ Len(runs[i].renames) = 1
          /\ runs[i].tally.renamed = 1
          /\ runs[i].tally.deleted = 0
          /\ runs[i].tally.failed = 0
          /\ Len(runs[i].log) = 2
          /\ previewed_orphan_paths(runs[i]) \subseteq DOMAIN fs.files
          /\ fs # fs0

LOGO_PNG == basename(CSS_LOGO)
LOGO_OLD_PNG == basename(CSS_LOGO_OLD)

\* run r of the upload saw logo.png on the local side only and logo-old.png
\* on the remote side only, with one fingerprint
LogoRenamed(r) ==
    /\ r.listed /\ ~r.is_file
    /\ LOGO_PNG \in rels(r.local_files)
    /\ LOGO_OLD_PNG \notin rels(r.local_files)
    /\ LET es == s3_entries(r.s3_objects, r.s3_prefix)
       IN /\ LOGO_OLD_PNG \in s3_rels(es)
          /\ LOGO_PNG \notin s3_rels(es)
          /\ s3_entry(es, LOGO_OLD_PNG).etag = <<entryOf(r.local_files, LOGO_PNG).hash>>

\* C20: with logo.png local only and logo-old.png remote only, of one
\* fingerprint and a name similarity of at least 0.7, the upload sync plans
\* exactly one rename pair, logo-old.png to logo.png, executes it as one
\* delete of the old key and one upload under the new key, and lists neither
\* logo.png as new nor logo-old.png as an orphan
C20_LogoRenamePlanned ==
    \A i \in RunIdx :
        (script = "to" /\ LogoRenamed(runs[i])) =>
            /\ AtLeastThreshold(LOGO_PNG, LOGO_OLD_PNG)
            /\ Len(runs[i].plan.renames) = 1
            /\ runs[i].plan.renames[1].local_path = LOGO_PNG
            /\ runs[i].plan.renames[1].s3_rel_path = LOGO_OLD_PNG
            /\ LOGO_PNG \notin Range(runs[i].plan.new_files)
            /\ LOGO_OLD_PNG \notin Range(runs[i].plan.orphaned_files)
            /\ Returned(i) =>
                  /\ Len(runs[i].renames) = 1
                  /\ LOGO_PNG \notin runs[i].created
                  /\ runs[i].s3_prefix \o LOGO_OLD_PNG \notin Range(runs[i].orphaned)

\* the local paths a download run put forward for deletion or took as the
\* source of a rename
local_deletions_put_forward(r) ==
    Range(r.orphaned) \cup previewed_orphan_paths(r) \cup deleted_by(r, "delete_local")
        \cup {entryOf(r.local_files, r.plan.renames[k].old).path :
                 k \in 1..Len(r.plan.renames)}

\* C21: the local scan of the download leaves out what the local scan of the
\* upload leaves out (skipped names, the extension .psd, 'archive'
\* directories), so a local file the upload never uploads is never an orphan
\* of the download, never deleted locally and never the source of a rename
C21_DownloadScanExcludes ==
    script = "from" =>
        /\ \A i \in RunIdx : \A k \in 1..Len(runs[i].local_files) :
              ~excluded_from_scan(runs[i].local_files[k].rel)
        /\ \A i \in RunIdx : \A p \in local_deletions_put_forward(runs[i]) :
              ~excluded_from_scan(after(p, CSS_MARKER))
        /\ \A p \in DOMAIN fs0.files :
              excluded_from_scan(after(p, CSS_MARKER)) => p \in DOMAIN fs.files

\* the local files under css that cannot be read
Unreadable == {p \in DOMAIN fs0.files : startswith(p, CSS_MARKER) /\ fs0.files[p] = NoHash}

\* an upload run was asked to upload the file p
upload_called(r, p) ==
    \E j \in 1..Len(r.calls) : r.calls[j].op = "upload" /\ r.calls[j].src = p

\* C22: a local file whose hash cannot be computed is skipped by the upload:
\* it is not scanned and not uploaded, and the remote object at its relative
\* path is neither listed as an orphan nor deleted: it is still in the bucket
C22_UnreadableSkipped ==
    script = "to" =>
        \A p \in Unreadable :
            /\ \A i \in RunIdx :
                  /\ after(p, CSS_MARKER) \notin rels(runs[i].local_files)
                  /\ ~upload_called(runs[i], p)
                  /\ S3_PREFIX \o p \notin deletions_put_forward(runs[i])
            /\ S3_PREFIX \o p \in DOMAIN store0 =>
                  /\ S3_PREFIX \o p \in DOMAIN store
                  /\ store[S3_PREFIX \o p] = store0[S3_PREFIX \o p]

\* the sources and the targets of the renames of a download plan
rename_sources(plan) == {plan.renames[k].old : k \in 1..Len(plan.renames)}
rename_targets(plan) == {plan.renames[k].new : k \in 1..Len(plan.renames)}

\* C23: the categories of the plan the download previews are pairwise
\* disjoint: a rename target is not listed as new, a rename source is not
\* listed as orphaned, no path is both changed and a rename target, and the
\* new, changed and orphaned lists share no path
C23_PlanCategoriesDisjoint ==
    \A i \in RunIdx :
        script = "from" =>
            /\ rename_targets(runs[i].plan) \cap Range(runs[i].plan.new_files) = {}
            /\ rename_sources(runs[i].plan) \cap Range(runs[i].plan.orphaned_files) = {}
            /\ rename_targets(runs[i].plan) \cap Range(runs[i].plan.changed_files) = {}
            /\ Range(runs[i].plan.new_files) \cap Range(runs[i].plan.changed_files) = {}
            /\ Range(runs[i].plan.new_files) \cap Range(runs[i].plan.orphaned_files) = {}
            /\ Range(runs[i].plan.changed_files) \cap Range(runs[i].plan.orphaned_files) = {}

\* a real run whose calls all succeeded and whose deletion prompt, if there
\* was one, was accepted
AllWentThrough(i) ==
    /\ Returned(i)
    /\ \A j \in 1..Len(runs[i].log) : runs[i].log[j].ok
    /\ ~DeletionDeclined(i)

\* the orphans the preview of run r lists, as the executor names them
previewed_orphans(r) ==
    IF script = "to" THEN previewed_orphan_keys(r) ELSE previewed_orphan_paths(r)

\* C24: the executor acts on the plan that was previewed for the same inputs:
\* when every call succeeds and every prompt is accepted, the files created
\* are the previewed new files, the files updated the previewed changed
\* files, the renames the previewed renames and the files deleted the
\* previewed orphans, in both directions and with and without force
C24_ExecutorFollowsPlan ==
    \A i \in RunIdx :
        AllWentThrough(i) =>
            /\ runs[i].created = Range(runs[i].plan.new_files)
            /\ runs[i].changed = Range(runs[i].plan.changed_files)
            /\ runs[i].renames = runs[i].plan.renames
            /\ Range(runs[i].orphaned) = previewed_orphans(runs[i])

\* every file a run found on the side it deletes from was deleted as an orphan
AllDeletedAsOrphans(r) ==
    /\ r.orphaned # <<>>
    /\ IF script = "to"
       THEN /\ r.local_files = <<>>
            /\ s3_rels(s3_entries(r.s3_objects, r.s3_prefix)) \subseteq
                  {after(k, r.s3_prefix) : k \in Range(r.orphaned)}
       ELSE {r.local_files[k].path : k \in 1..Len(r.local_files)} \subseteq Range(r.orphaned)

\* C25: for one path's sync folders_deleted is at most 1, whatever the number
\* of orphans and of folder markers under the prefix; it is 1 only for a
\* directory scope whose remaining files were all deleted as orphans, and 0
\* for the scope of a single file
C25_FolderDeletedOnce ==
    \A i \in RunIdx :
        /\ runs[i].tally.folders_deleted <= 1
        /\ runs[i].tally.folders_deleted = 1 =>
              ~runs[i].is_file /\ AllDeletedAsOrphans(runs[i])
        /\ runs[i].is_file => runs[i].tally.folders_deleted = 0

\* the keys of the local files of run r: each is uploaded by r or in sync
keys_of(r) == {r.s3_prefix \o r.local_files[k].rel : k \in 1..Len(r.local_files)}

\* C26: in an upload run of several paths, with or without --prefix, no
\* object that one path uploads or leaves in sync is listed as an orphan or
\* deleted while another path is processed, and after a real run the objects
\* of every path are in the bucket
C26_PathsKeepEachOthersFiles ==
    script = "to" =>
        /\ \A i, j \in RunIdx :
              runs[i].idx # runs[j].idx =>
                  keys_of(runs[j]) \cap deletions_put_forward(runs[i]) = {}
        /\ (pc = "done" /\ ExecPassOver /\ ~args.dry_run) =>
              \A j \in passes("exec") : keys_of(runs[j]) \subseteq DOMAIN store

\* run r synced a single file that exists locally
ExistingFile(r) == r.listed /\ r.is_file /\ r.local_path \in DOMAIN fs0.files

\* C27: two distinct project paths that name existing files never map to the
\* same remote key, so that after a real upload of both, all calls
\* succeeding, the object of each file holds that file's content
C27_FilesHaveOwnKeys ==
    script = "to" =>
        /\ \A i, j \in RunIdx :
              (ExistingFile(runs[i]) /\ ExistingFile(runs[j])
                 /\ runs[i].local_path # runs[j].local_path) =>
                  runs[i].sync_scope_prefix # runs[j].sync_scope_prefix
        /\ (pc = "done" /\ ExecPassOver /\ ~args.dry_run) =>
              \A j \in passes("exec") :
                  ExistingFile(runs[j]) =>
                      /\ runs[j].sync_scope_prefix \in DOMAIN store
                      /\ store[runs[j].sync_scope_prefix].ETag = ETagOf(fs0.files[runs[j].local_path])

\* the keys the confirmed preview showed for deletion: the orphans of every
\* path, and the folder markers of the paths whose folder it lists as deleted
previewed_for_deletion ==
    UNION {previewed_orphan_keys(runs[j]) \cup
              (IF runs[j].plan.folders_to_delete = <<>> THEN {}
               ELSE Range(folder_markers_of(runs[j].s3_objects, runs[j].sync_scope_prefix))) :
           j \in passes("preview")}

\* C28: in a default-mode upload run of several paths, every key the second
\* pass deletes was shown for deletion by the preview the user confirmed
C28_DeletedWasPreviewed ==
    (script = "to" /\ default_mode) =>
        \A i \in passes("exec") :
            deleted_by(runs[i], "delete_object") \subseteq previewed_for_deletion

\* some path's remote listing or existence probe failed in some pass of the run
some_listing_failed == \E i \in RunIdx : ~runs[i].listed

\* C29: when the remote listing or existence probe failed for at least one
\* path of a run, main returns False, in every mode
C29_ListingFailureFailsRun ==
    (pc = "done" /\ some_listing_failed) => result = "False"

\* the last fetch gave an invalidation whose status is InProgress
LastFetchedInProgress == truthy(poll.invalidation) /\ poll.status = "InProgress"

\* the function is over
PollReturned == poll.returned # "none"

\* what the loop does with each fetch: another fetch is due while the last one
\* gave InProgress, True is returned at once on Completed and False at once
\* when no invalidation came back
PollFollowsFetch ==
    /\ poll.pc = "sleep" => (LastFetchedInProgress /\ ~PollReturned)
    /\ (truthy(poll.invalidation) /\ poll.status = "Completed") => poll.returned = "True"
    /\ poll.invalidation.kind = "None" => poll.returned = "False"

\* every fetch so far gave an invalidation
FetchesSucceed == poll.invalidation.kind # "None"

\* the check after an InProgress one comes, unless Ctrl+C comes first
NextCheckComes ==
    (poll.pc = "sleep" /\ ~sleep_raises(poll.interval)) ~> (poll.pc # "sleep")

====
